---- MODULE Spec2Model ----
(***************************************************************************)
(* A model of ag_contrib.config: the duration and deadline conversions,    *)
(* the repeat expansion of test cases, and the save / load reconciliation  *)
(* of a project configuration against the remote grading service.         *)
(*                                                                         *)
(* Encodings.  Python None is the empty tuple.  A datetime is a number of  *)
(* minutes; its ISO string (datetime.isoformat) is the pair <<"iso", t>>.  *)
(* A Python bool is the record [bool |-> b] and a Python str the record    *)
(* [str |-> s] wherever a field can hold either.  A text that is searched  *)
(* or parsed is a sequence of one-character strings.                       *)
(***************************************************************************)
EXTENDS Integers, Sequences, FiniteSets, TLC

VARIABLES
    fnIn,     \* the argument a conversion is applied to
    fnOut,    \* the conversion applied and what it returned
    remote,   \* the state of the remote service
    run,      \* the local state of the running save (a _ProjectSaver)
    calls,    \* the mutating remote calls the current save has issued
    hist,     \* what earlier saves and loads left behind
    loaded    \* the configuration the last load produced

vars == <<fnIn, fnOut, remote, run, calls, hist, loaded>>

None == <<>>

\* An Optional value that is set
Some(x) == <<x>>

NoCall == [fn |-> "none"]

Idle == [pc |-> "idle"]

PyBool(b) == [bool |-> b]

PyStr(s) == [str |-> s]

IsPyBool(v) == DOMAIN v = {"bool"}

(***************************************************************************)
(* Bounds.                                                                 *)
(***************************************************************************)
MaxTime == 3

Times == 0 .. MaxTime

(***************************************************************************)
(* Datetimes on the wire.                                                  *)
(***************************************************************************)
isoformat(t) == <<"iso", t>>

\* validate_datetime: None stays None, an ISO string is parsed.
validate_datetime(value) ==
    IF value = None THEN None ELSE value[2]

(***************************************************************************)
(* The deadline variants of the configuration model.                       *)
(***************************************************************************)
DefaultRelativeCutoff == 0

DeadlineWithRelativeCutoff(deadline, cutoff) ==
    [cutoff_type |-> "relative", deadline |-> deadline, cutoff |-> cutoff]

DeadlineWithFixedCutoff(deadline, cutoff) ==
    [cutoff_type |-> "fixed", deadline |-> deadline, cutoff |-> cutoff]

DeadlineWithNoCutoff(deadline) ==
    [cutoff_type |-> "none", deadline |-> deadline]

\* A mutant of _process_deadline: the relative cutoff is the hard deadline
\* itself, not its distance from the soft deadline.
ProcessDeadlineAbsoluteCutoff(project_data, deadline_cutoff_preference) ==
    LET soft_deadline == project_data.soft_closing_time
        hard_deadline == project_data.closing_time
    IN  IF soft_deadline # None /\ hard_deadline # None
        THEN IF deadline_cutoff_preference = "relative"
             THEN DeadlineWithRelativeCutoff(
                      validate_datetime(soft_deadline),
                      validate_datetime(hard_deadline))
             ELSE DeadlineWithFixedCutoff(
                      validate_datetime(soft_deadline),
                      validate_datetime(hard_deadline))
        ELSE IF soft_deadline # None
        THEN DeadlineWithNoCutoff(validate_datetime(soft_deadline))
        ELSE IF hard_deadline # None
        THEN DeadlineWithRelativeCutoff(
                 validate_datetime(hard_deadline), DefaultRelativeCutoff)
        ELSE None

\* load_project._process_deadline
ProcessDeadline(project_data, deadline_cutoff_preference) ==
    LET soft_deadline == project_data.soft_closing_time
        hard_deadline == project_data.closing_time
    IN  IF soft_deadline # None /\ hard_deadline # None
        THEN IF deadline_cutoff_preference = "relative"
             THEN LET parsed_soft == validate_datetime(soft_deadline)
                      parsed_hard == validate_datetime(hard_deadline)
                  IN  DeadlineWithRelativeCutoff(
                          parsed_soft, parsed_hard - parsed_soft)
             ELSE DeadlineWithFixedCutoff(
                      validate_datetime(soft_deadline),
                      validate_datetime(hard_deadline))
        ELSE IF soft_deadline # None /\ hard_deadline = None
        THEN DeadlineWithNoCutoff(validate_datetime(soft_deadline))
        ELSE IF soft_deadline = None /\ hard_deadline # None
        THEN DeadlineWithRelativeCutoff(
                 validate_datetime(hard_deadline), DefaultRelativeCutoff)
        ELSE None

\* A mutant of _make_legacy_project_api_dict: the relative cutoff is sent
\* as the closing time without adding it to the deadline.
MakeLegacyProjectApiDictNoSum(deadline) ==
    IF deadline = None THEN [present |-> FALSE]
    ELSE IF deadline.cutoff_type = "none"
    THEN [present |-> TRUE,
          soft_closing_time |-> isoformat(deadline.deadline),
          closing_time |-> None]
    ELSE [present |-> TRUE,
          soft_closing_time |-> isoformat(deadline.deadline),
          closing_time |-> isoformat(deadline.cutoff)]

\* save_project._ProjectSaver._make_legacy_project_api_dict, the deadline
\* keys of its result; present is FALSE when it sets neither key.
MakeLegacyProjectApiDict(deadline) ==
    IF deadline = None THEN [present |-> FALSE]
    ELSE IF deadline.cutoff_type = "relative"
    THEN [present |-> TRUE,
          soft_closing_time |-> isoformat(deadline.deadline),
          closing_time |-> isoformat(deadline.deadline + deadline.cutoff)]
    ELSE IF deadline.cutoff_type = "fixed"
    THEN [present |-> TRUE,
          soft_closing_time |-> isoformat(deadline.deadline),
          closing_time |-> isoformat(deadline.cutoff)]
    ELSE [present |-> TRUE,
          soft_closing_time |-> isoformat(deadline.deadline),
          closing_time |-> None]

(***************************************************************************)
(* Email receipts.                                                         *)
(***************************************************************************)
\* load_project._process_email_receipts
ProcessEmailReceipts(project_data) ==
    LET on_received == project_data.send_email_on_submission_received
        on_finish == project_data.send_email_on_non_deferred_tests_finished
    IN  IF on_received /\ on_finish THEN PyBool(TRUE)
        ELSE IF on_received THEN PyStr("on_received")
        ELSE IF on_finish THEN PyStr("on_finish")
        ELSE PyBool(FALSE)

\* ProjectSettings.send_email_receipts is declared bool: any other value
\* fails the validation of the settings.
ValidSendEmailReceipts(value) == IsPyBool(value)

\* ProjectSettings.send_email_on_submission_received
send_email_on_submission_received(settings) ==
    settings.send_email_receipts.bool

\* ProjectSettings.send_email_on_non_deferred_tests_finished
send_email_on_non_deferred_tests_finished(settings) ==
    settings.send_email_receipts.bool

\* The pair of booleans the save payload carries for a tri-state value, or
\* the validation error of the settings that cannot hold the value.
ExpandEmailReceipts(value) ==
    IF ~ValidSendEmailReceipts(value) THEN <<"ValidationError">>
    ELSE LET settings == [send_email_receipts |-> value]
         IN  <<send_email_on_submission_received(settings),
               send_email_on_non_deferred_tests_finished(settings)>>

EmailReceiptValues ==
    {PyBool(FALSE), PyStr("on_received"), PyStr("on_finish"), PyBool(TRUE)}

(***************************************************************************)
(* The settings conversions, each applied to one drawn input.              *)
(***************************************************************************)
RemoteTimes == {None} \cup {isoformat(t) : t \in Times}

\* The remote keeps the soft deadline no later than the hard one.
ProjectDataInputs ==
    {pd \in [soft_closing_time : RemoteTimes,
             closing_time : RemoteTimes,
             send_email_on_submission_received : BOOLEAN,
             send_email_on_non_deferred_tests_finished : BOOLEAN] :
        (pd.soft_closing_time # None /\ pd.closing_time # None)
            => pd.soft_closing_time[2] <= pd.closing_time[2]}

Deadlines ==
    {None}
    \cup {DeadlineWithRelativeCutoff(d, c) : d \in Times, c \in Times}
    \cup {DeadlineWithFixedCutoff(d, c) : d \in Times, c \in Times}
    \cup {DeadlineWithNoCutoff(d) : d \in Times}

\* The fixed cutoff is validated to be no earlier than the deadline.
ValidDeadline(deadline) ==
    (deadline # None /\ deadline.cutoff_type = "fixed")
        => deadline.cutoff >= deadline.deadline

MainIdle ==
    /\ remote = None
    /\ run = Idle
    /\ calls = <<>>
    /\ hist = <<>>
    /\ loaded = None

InitSettings ==
    /\ \/ \E pd \in ProjectDataInputs, pref \in {"relative", "fixed"} :
              fnIn = [kind |-> "project_data", project_data |-> pd,
                      deadline_cutoff_preference |-> pref]
       \/ \E dl \in {d \in Deadlines : ValidDeadline(d)},
             v \in EmailReceiptValues :
              fnIn = [kind |-> "settings", deadline |-> dl,
                      send_email_receipts |-> v]
    /\ fnOut = NoCall
    /\ MainIdle

CallProcessDeadline ==
    /\ fnOut = NoCall
    /\ fnIn.kind = "project_data"
    /\ fnOut' = [fn |-> "_process_deadline",
                 val |-> ProcessDeadline(fnIn.project_data,
                                         fnIn.deadline_cutoff_preference)]
    /\ UNCHANGED <<fnIn, remote, run, calls, hist, loaded>>

CallProcessEmailReceipts ==
    /\ fnOut = NoCall
    /\ fnIn.kind = "project_data"
    /\ fnOut' = [fn |-> "_process_email_receipts",
                 val |-> ProcessEmailReceipts(fnIn.project_data)]
    /\ UNCHANGED <<fnIn, remote, run, calls, hist, loaded>>

CallMakeLegacyProjectApiDict ==
    /\ fnOut = NoCall
    /\ fnIn.kind = "settings"
    /\ fnOut' = [fn |-> "_make_legacy_project_api_dict",
                 val |-> MakeLegacyProjectApiDict(fnIn.deadline)]
    /\ UNCHANGED <<fnIn, remote, run, calls, hist, loaded>>

CallExpandEmailReceipts ==
    /\ fnOut = NoCall
    /\ fnIn.kind = "settings"
    /\ fnOut' = [fn |-> "send_email_on",
                 val |-> ExpandEmailReceipts(fnIn.send_email_receipts)]
    /\ UNCHANGED <<fnIn, remote, run, calls, hist, loaded>>

NextSettings ==
    \/ CallProcessDeadline
    \/ CallProcessEmailReceipts
    \/ CallMakeLegacyProjectApiDict
    \/ CallExpandEmailReceipts

SpecSettings == InitSettings /\ [][NextSettings]_vars

(***************************************************************************)
(* C4: loading resolves the remote (soft, hard) pair by the deadline       *)
(* table: both set and relative gives RelativeCutoff(soft, hard - soft);   *)
(* both set and fixed gives FixedCutoff(soft, hard); only soft gives       *)
(* NoCutoff(soft); only hard gives RelativeCutoff(hard, 0); neither gives  *)
(* null; the preference matters only when both are set.                    *)
(***************************************************************************)
DeadlineTable(soft, hard, pref) ==
    CASE soft # None /\ hard # None /\ pref = "relative" ->
             [cutoff_type |-> "relative", deadline |-> soft[2],
              cutoff |-> hard[2] - soft[2]]
      [] soft # None /\ hard # None /\ pref = "fixed" ->
             [cutoff_type |-> "fixed", deadline |-> soft[2],
              cutoff |-> hard[2]]
      [] soft # None /\ hard = None ->
             [cutoff_type |-> "none", deadline |-> soft[2]]
      [] soft = None /\ hard # None ->
             [cutoff_type |-> "relative", deadline |-> hard[2], cutoff |-> 0]
      [] soft = None /\ hard = None -> None

C5_LocalToRemote ==
    (fnOut.fn = "_make_legacy_project_api_dict" /\ fnIn.deadline # None) =>
        LET dl == fnIn.deadline
            out == fnOut.val
        IN  /\ out.present
            /\ out.soft_closing_time = <<"iso", dl.deadline>>
            /\ dl.cutoff_type = "relative"
                 => out.closing_time = <<"iso", dl.deadline + dl.cutoff>>
            /\ dl.cutoff_type = "fixed"
                 => out.closing_time = <<"iso", dl.cutoff>>
            /\ dl.cutoff_type = "none" => out.closing_time = None

C5_Witness ==
    /\ fnOut.fn = "_make_legacy_project_api_dict"
    /\ fnIn.deadline = DeadlineWithRelativeCutoff(1, 2)
    /\ fnOut.val.closing_time = <<"iso", 3>>

(***************************************************************************)
(* C6: the email-receipt collapse maps (T,T) to true, (T,F) to             *)
(* "on_received", (F,T) to "on_finish", (F,F) to false, and the expansion  *)
(* used for the save payload is its inverse in both directions.            *)
(***************************************************************************)
CollapseTable(on_received, on_finish) ==
    CASE on_received /\ on_finish -> PyBool(TRUE)
      [] on_received /\ ~on_finish -> PyStr("on_received")
      [] ~on_received /\ on_finish -> PyStr("on_finish")
      [] ~on_received /\ ~on_finish -> PyBool(FALSE)

C6_CollapseIsTable ==
    fnOut.fn = "_process_email_receipts" =>
        fnOut.val = CollapseTable(
            fnIn.project_data.send_email_on_submission_received,
            fnIn.project_data.send_email_on_non_deferred_tests_finished)

C6_EmailBijection ==
    /\ C6_CollapseIsTable
    /\ fnOut.fn = "_process_email_receipts" =>
           ExpandEmailReceipts(fnOut.val)
               = <<fnIn.project_data.send_email_on_submission_received,
                   fnIn.project_data.send_email_on_non_deferred_tests_finished>>
    /\ fnOut.fn = "send_email_on" =>
           /\ Len(fnOut.val) = 2
           /\ ProcessEmailReceipts(
                  [send_email_on_submission_received |-> fnOut.val[1],
                   send_email_on_non_deferred_tests_finished |-> fnOut.val[2]])
                  = fnIn.send_email_receipts

(***************************************************************************)
(* Durations.  A timedelta is a number of minutes.                         *)
(***************************************************************************)
MaxLen == 6

Digits == {"2"}

Alphabet == Digits \cup {"d", "h", "m", " ", "a"}

Texts == UNION {[1 .. n -> Alphabet] : n \in 0 .. MaxLen}

DigitValue(c) == CASE c = "0" -> 0 [] c = "1" -> 1 [] c = "2" -> 2
                   [] c = "3" -> 3 [] c = "4" -> 4 [] c = "5" -> 5
                   [] c = "6" -> 6 [] c = "7" -> 7 [] c = "8" -> 8
                   [] c = "9" -> 9

AllDigits == {"0", "1", "2", "3", "4", "5", "6", "7", "8", "9"}

\* int(str) of a string of digits
RECURSIVE IntOf(_)
IntOf(ds) ==
    IF ds = <<>> THEN 0
    ELSE 10 * IntOf(SubSeq(ds, 1, Len(ds) - 1)) + DigitValue(ds[Len(ds)])

\* The position after the longest run of characters of cs that starts at i.
RECURSIVE Skip(_, _, _)
Skip(s, i, cs) ==
    IF i <= Len(s) /\ s[i] \in cs THEN Skip(s, i + 1, cs) ELSE i

\* One optional component of the pattern, ((?P<g>\d+)\s*x)?, tried at i: the
\* digits are taken greedily, then the white space, then the unit letter.
\* The group is None when the component does not match.
MatchComponent(s, i, unit) ==
    LET j == Skip(s, i, AllDigits)
        k == Skip(s, j, {" "})
    IN  IF j > i /\ k <= Len(s) /\ s[k] = unit
        THEN [group |-> SubSeq(s, i, j - 1), next |-> k + 1]
        ELSE [group |-> None, next |-> i]

\* re.match of the duration pattern at the start of the text.  Every part
\* of the pattern is optional, so the match always exists; end is the
\* position after what it consumed.
DurationMatch(s) ==
    LET days == MatchComponent(s, Skip(s, 1, {" "}), "d")
        hours == MatchComponent(s, Skip(s, days.next, {" "}), "h")
        minutes == MatchComponent(s, Skip(s, hours.next, {" "}), "m")
    IN  [days |-> days.group, hours |-> hours.group,
         minutes |-> minutes.group, end |-> minutes.next]

timedelta(days, hours, minutes) ==
    [ok |-> TRUE, minutes |-> days * 1440 + hours * 60 + minutes]

Raise(error) == [ok |-> FALSE, error |-> error]

\* int() of a group that groupdict(0) defaulted to 0 when unmatched
IntOfDefaulted(group) == IF group = None THEN 0 ELSE IntOf(group)

\* time_processing.validate_duration, for a str argument
validate_duration(value) ==
    LET matches == DurationMatch(value)
    IN  timedelta(IntOfDefaulted(matches.days),
                  IntOfDefaulted(matches.hours),
                  IntOfDefaulted(matches.minutes))

\* ProjectSettings.validate_grace_period, for a str argument: groupdict()
\* holds None for an unmatched group, get(name, 0) returns that None, and
\* int(None) raises TypeError.
validate_grace_period(value) ==
    LET matches == DurationMatch(value)
    IN  IF matches.days = None \/ matches.hours = None
           \/ matches.minutes = None
        THEN Raise("TypeError")
        ELSE timedelta(IntOf(matches.days), IntOf(matches.hours),
                       IntOf(matches.minutes))

InitDuration ==
    /\ \E s \in Texts : fnIn = [kind |-> "text", text |-> s]
    /\ fnOut = NoCall
    /\ MainIdle

CallValidateDuration ==
    /\ fnOut = NoCall
    /\ fnIn.kind = "text"
    /\ fnOut' = [fn |-> "validate_duration",
                 val |-> validate_duration(fnIn.text)]
    /\ UNCHANGED <<fnIn, remote, run, calls, hist, loaded>>

CallValidateGracePeriod ==
    /\ fnOut = NoCall
    /\ fnIn.kind = "text"
    /\ fnOut' = [fn |-> "validate_grace_period",
                 val |-> validate_grace_period(fnIn.text)]
    /\ UNCHANGED <<fnIn, remote, run, calls, hist, loaded>>

NextDuration == CallValidateDuration \/ CallValidateGracePeriod

SpecDuration == InitDuration /\ [][NextDuration]_vars

\* The strings <n>d<n>h<n>m with any of the three components left out.
DigitStrings == UNION {[1 .. n -> Digits] : n \in 1 .. MaxLen}

ComponentChoices == {None} \cup DigitStrings

ComponentText(digits, unit) ==
    IF digits = None THEN <<>> ELSE digits \o <<unit>>

ComponentValue(digits) == IF digits = None THEN 0 ELSE IntOf(digits)

DurationText(d, h, m) ==
    ComponentText(d, "d") \o ComponentText(h, "h") \o ComponentText(m, "m")

IsDurationParser(fn) == fn \in {"validate_duration", "validate_grace_period"}

(***************************************************************************)
(* C7: for every duration string made of any subset of the components      *)
(* <n>d, <n>h, <n>m in that order (the empty string included), parsing     *)
(* returns days + hours + minutes with each absent component counted as 0, *)
(* in both parsers, validate_duration and the grace_period validator.      *)
(***************************************************************************)
C7_ParsesEverySubset ==
    IsDurationParser(fnOut.fn) =>
        \A d \in ComponentChoices, h \in ComponentChoices,
           m \in ComponentChoices :
            fnIn.text = DurationText(d, h, m) =>
                fnOut.val = [ok |-> TRUE,
                             minutes |-> ComponentValue(d) * 1440
                                         + ComponentValue(h) * 60
                                         + ComponentValue(m)]

\* The half of C7 that is about validate_duration alone.
C7_ValidateDurationParsesEverySubset ==
    fnOut.fn = "validate_duration" => C7_ParsesEverySubset

(***************************************************************************)
(* C8: duration parsing fails with a FormatError (a ValueError in the      *)
(* code) on every string that does not match (\d+d)?(\d+h)?(\d+m)? with    *)
(* optional white space; no such string is accepted as a duration.         *)
(***************************************************************************)
StripSpaces(s) == SelectSeq(s, LAMBDA c : c # " ")

MatchesDurationPattern(s) ==
    \E d \in ComponentChoices, h \in ComponentChoices, m \in ComponentChoices :
        StripSpaces(s) = DurationText(d, h, m)

C8_RejectsNonMatching ==
    (IsDurationParser(fnOut.fn) /\ ~MatchesDurationPattern(fnIn.text)) =>
        fnOut.val = [ok |-> FALSE, error |-> "ValueError"]

(***************************************************************************)
(* Repeat expansion of test cases.                                         *)
(***************************************************************************)
MaxRepeat == 2

\* str.replace(old, new): every occurrence of old, left to right, without
\* overlap; old is never empty here.
RECURSIVE Replace(_, _, _)
Replace(string, old, new) ==
    IF Len(string) < Len(old) THEN string
    ELSE IF SubSeq(string, 1, Len(old)) = old
    THEN new \o Replace(SubSeq(string, Len(old) + 1, Len(string)), old, new)
    ELSE <<string[1]>> \o Replace(Tail(string), old, new)

DigitChar(n) == CASE n = 0 -> "0" [] n = 1 -> "1" [] n = 2 -> "2"
                  [] n = 3 -> "3" [] n = 4 -> "4" [] n = 5 -> "5"
                  [] n = 6 -> "6" [] n = 7 -> "7" [] n = 8 -> "8"
                  [] n = 9 -> "9"

\* str(n) of a natural number
RECURSIVE StrOfNat(_)
StrOfNat(n) ==
    IF n < 10 THEN <<DigitChar(n)>>
    ELSE StrOfNat(n \div 10) \o <<DigitChar(n % 10)>>

\* repr of a value inside a dict: a number in decimal, a string in quotes
ReprOf(value) ==
    IF DOMAIN value = {"int"} THEN StrOfNat(value.int)
    ELSE <<"'">> \o value.str \o <<"'">>

\* str(mapping): {'key': value, ...} in the order of the items
RECURSIVE DictItemsRepr(_)
DictItemsRepr(items) ==
    IF items = <<>> THEN <<>>
    ELSE <<"'">> \o items[1].key \o <<"'", ":", " ">> \o ReprOf(items[1].value)
         \o (IF Len(items) > 1 THEN <<",", " ">> ELSE <<>>)
         \o DictItemsRepr(Tail(items))

\* str(replacement): a number in decimal, a string as it is, a mapping as
\* Python prints a dict
StrOf(replacement) ==
    IF DOMAIN replacement = {"int"} THEN StrOfNat(replacement.int)
    ELSE IF DOMAIN replacement = {"str"} THEN replacement.str
    ELSE <<"{">> \o DictItemsRepr(replacement.map) \o <<"}">>

\* models.apply_substitutions; the dict is the sequence of its items in
\* insertion order.
RECURSIVE apply_substitutions(_, _)
apply_substitutions(string, sub) ==
    IF sub = <<>> THEN string
    ELSE apply_substitutions(
             Replace(string, sub[1].placeholder, StrOf(sub[1].replacement)),
             Tail(sub))

HasKey(sub, key) == \E i \in 1 .. Len(sub) : sub[i].placeholder = key

Lookup(sub, key) ==
    sub[CHOOSE i \in 1 .. Len(sub) : sub[i].placeholder = key].replacement

\* models.apply_points_substitution
apply_points_substitution(original_points_val, sub) ==
    IF DOMAIN original_points_val = {"int"}
    THEN [ok |-> TRUE, val |-> original_points_val]
    ELSE IF ~HasKey(sub, original_points_val.str)
    THEN Raise("PointsSubstitutionError")
    ELSE IF DOMAIN Lookup(sub, original_points_val.str) # {"int"}
    THEN Raise("PointsSubstitutionError")
    ELSE [ok |-> TRUE, val |-> Lookup(sub, original_points_val.str)]

\* One pass of the loop of SingleCmdTestCaseConfig.do_repeat: the deep copy
\* of the template with the substitution applied.  The command text is
\* computed from the name that was just substituted.  Of the three points
\* fields, which are treated alike, the model keeps the return code's.
SingleCmdRepeatOne(self, substitution) ==
    LET new_name == apply_substitutions(self.name, substitution)
        new_cmd == apply_substitutions(new_name, substitution)
    IN  [self EXCEPT !.name = new_name, !.cmd = new_cmd,
                     !.points_for_correct_return_code =
                         apply_points_substitution(@, substitution).val]

\* A mutant of SingleCmdTestCaseConfig.do_repeat: a template without repeat
\* entries runs through the loop and yields nothing.
SingleCmdDoRepeatNoShortcut(self) ==
    IF \E i \in 1 .. Len(self.repeat) :
           ~apply_points_substitution(self.points_for_correct_return_code,
                                      self.repeat[i]).ok
    THEN Raise("PointsSubstitutionError")
    ELSE [ok |-> TRUE,
          tests |-> [i \in 1 .. Len(self.repeat) |->
                        SingleCmdRepeatOne(self, self.repeat[i])]]

\* SingleCmdTestCaseConfig.do_repeat
SingleCmdDoRepeat(self) ==
    IF self.repeat = <<>> THEN [ok |-> TRUE, tests |-> <<self>>]
    ELSE IF \E i \in 1 .. Len(self.repeat) :
                ~apply_points_substitution(
                     self.points_for_correct_return_code, self.repeat[i]).ok
    THEN Raise("PointsSubstitutionError")
    ELSE [ok |-> TRUE,
          tests |-> [i \in 1 .. Len(self.repeat) |->
                        SingleCmdRepeatOne(self, self.repeat[i])]]

\* MultiCommandConfig.do_repeat
MultiCommandDoRepeat(command) == Raise("NotImplementedError")

\* MultiCmdTestCaseConfig.do_repeat.  With repeat entries, every command of
\* the copy is expanded by MultiCommandConfig.do_repeat, which raises; a
\* copy without commands has nothing to expand.
MultiCmdDoRepeat(self) ==
    IF self.repeat = <<>> THEN [ok |-> TRUE, tests |-> <<self>>]
    ELSE IF self.commands # <<>>
    THEN MultiCommandDoRepeat(self.commands[1])
    ELSE [ok |-> TRUE,
          tests |-> [i \in 1 .. Len(self.repeat) |->
                        [self EXCEPT !.name =
                            apply_substitutions(self.name, self.repeat[i])]]]

PyInt(n) == [int |-> n]

TemplateNames ==
    {<<"T">>, <<"T", "$", "N">>, <<"$", "N", "$", "N">>, <<"$", "M", "N">>}

TemplateCmds ==
    {<<"r">>, <<"r", "$", "N">>, <<"$", "N", "$", "M">>}

Item(placeholder, replacement) ==
    [placeholder |-> placeholder, replacement |-> replacement]

SubstitutionMaps ==
    {<<>>,
     <<Item(<<"$", "N">>, PyInt(1))>>,
     <<Item(<<"$", "N">>, PyInt(2))>>,
     <<Item(<<"$", "N">>, PyInt(12)), Item(<<"$", "M">>, PyStr(<<"x">>))>>,
     <<Item(<<"$", "M">>, PyStr(<<"$", "N">>)), Item(<<"$", "N">>, PyInt(3))>>}

RepeatLists == UNION {[1 .. n -> SubstitutionMaps] : n \in 0 .. MaxRepeat}

SingleCmdTemplates ==
    [type : {"single_cmd"}, name : TemplateNames, cmd : TemplateCmds,
     stdin_instructor_file : {None},
     points_for_correct_return_code : {PyInt(0), PyStr(<<"$", "N">>)},
     normal_fdbk_config : {"pass/fail"},
     repeat : RepeatLists]

MultiCmdTemplates ==
    [type : {"multi_cmd"}, name : TemplateNames,
     commands : {<<>>, <<[name |-> <<"c">>, cmd |-> <<"r", "$", "N">>]>>},
     repeat : RepeatLists]

\* The reserved key of a substitution map
OverrideKey == <<"_", "o", "v", "e", "r", "r", "i", "d", "e">>

PyMap(items) == [map |-> items]

MapItem(key, value) == [key |-> key, value |-> value]

\* {"cmd": "echo override"}
CmdOverride == PyMap(<<MapItem(<<"c", "m", "d">>, PyStr(<<"e", "o">>))>>)

\* An override that names a key that no test case has
UnknownKeyOverride == PyMap(<<MapItem(<<"z">>, PyStr(<<"e", "o">>))>>)

\* The top-level fields of a single-command test case
SingleCmdFieldNames ==
    {<<"n", "a", "m", "e">>, <<"t", "y", "p", "e">>, <<"c", "m", "d">>,
     <<"i", "n", "p", "u", "t">>, <<"r", "e", "p", "e", "a", "t">>}

\* Repeat lists in which one map carries the reserved key: a command
\* override, an unknown key, a value that is no mapping.
OverrideRepeatLists ==
    {<<<<Item(<<"$", "N">>, PyInt(1))>>,
       <<Item(<<"$", "N">>, PyInt(2)), Item(OverrideKey, CmdOverride)>>>>,
     <<<<Item(OverrideKey, CmdOverride)>>>>,
     <<<<Item(<<"$", "N">>, PyInt(1)), Item(OverrideKey, UnknownKeyOverride)>>,
       <<Item(<<"$", "N">>, PyInt(2))>>>>,
     <<<<Item(<<"$", "N">>, PyInt(1)),
         Item(OverrideKey, PyStr(<<"e", "o">>))>>>>,
     <<<<Item(OverrideKey, PyInt(7))>>>>}

OverrideTemplates ==
    [type : {"single_cmd"},
     name : {<<"T", "$", "N">>, <<"T">> \o OverrideKey},
     cmd : {<<"r", "$", "N">>},
     stdin_instructor_file : {None},
     points_for_correct_return_code : {PyInt(0)},
     normal_fdbk_config : {"pass/fail"},
     repeat : OverrideRepeatLists]

\* Templates that read their stdin from an instructor file.
InstructorFileTemplates ==
    [type : {"single_cmd"}, name : {<<"T", "$", "N">>}, cmd : {<<"r">>},
     stdin_instructor_file : {Some(<<"i", "$", "N">>), Some(<<"f">>)},
     points_for_correct_return_code : {PyInt(0)},
     normal_fdbk_config : {"pass/fail"},
     repeat : RepeatLists]

InitRepeat ==
    /\ \E t \in SingleCmdTemplates \cup MultiCmdTemplates
                    \cup OverrideTemplates \cup InstructorFileTemplates :
           fnIn = [kind |-> "template", template |-> t]
    /\ fnOut = NoCall
    /\ MainIdle

CallSingleCmdDoRepeat ==
    /\ fnOut = NoCall
    /\ fnIn.kind = "template"
    /\ fnIn.template.type = "single_cmd"
    /\ fnOut' = [fn |-> "do_repeat", val |-> SingleCmdDoRepeat(fnIn.template)]
    /\ UNCHANGED <<fnIn, remote, run, calls, hist, loaded>>

CallMultiCmdDoRepeat ==
    /\ fnOut = NoCall
    /\ fnIn.kind = "template"
    /\ fnIn.template.type = "multi_cmd"
    /\ fnOut' = [fn |-> "do_repeat", val |-> MultiCmdDoRepeat(fnIn.template)]
    /\ UNCHANGED <<fnIn, remote, run, calls, hist, loaded>>

NextRepeat == CallSingleCmdDoRepeat \/ CallMultiCmdDoRepeat

SpecRepeat == InitRepeat /\ [][NextRepeat]_vars

(***************************************************************************)
(* C9: for a single-command template with k >= 1 substitution maps,        *)
(* do_repeat returns exactly k test cases in the order of the maps, the    *)
(* i-th with its name equal to the template's name and its command text    *)
(* equal to the template's command text, each with every placeholder of    *)
(* the i-th map replaced by the string form of its value.                  *)
(***************************************************************************)
\* The expected text: the placeholders of the map replaced one after the
\* other, written without the model of the code.
RECURSIVE Substituted(_, _, _)
Substituted(text, map, i) ==
    IF i > Len(map) THEN text
    ELSE Substituted(
             Replace(text, map[i].placeholder,
                     IF DOMAIN map[i].replacement = {"int"}
                     THEN StrOfNat(map[i].replacement.int)
                     ELSE map[i].replacement.str),
             map, i + 1)

C9_Applies ==
    /\ fnOut.fn = "do_repeat"
    /\ fnIn.template.type = "single_cmd"
    /\ fnIn.template.repeat # <<>>
    /\ fnIn.template \notin OverrideTemplates
    /\ DOMAIN fnIn.template.points_for_correct_return_code = {"int"}

C9_RepeatExpandsNameAndCmd ==
    C9_Applies =>
        LET t == fnIn.template
        IN  /\ fnOut.val.ok
            /\ Len(fnOut.val.tests) = Len(t.repeat)
            /\ \A i \in 1 .. Len(t.repeat) :
                   /\ fnOut.val.tests[i].name
                          = Substituted(t.name, t.repeat[i], 1)
                   /\ fnOut.val.tests[i].cmd
                          = Substituted(t.cmd, t.repeat[i], 1)

\* The part of C9 that the code keeps: the count, the order and the names.
C9_RepeatExpandsName ==
    C9_Applies =>
        LET t == fnIn.template
        IN  /\ fnOut.val.ok
            /\ Len(fnOut.val.tests) = Len(t.repeat)
            /\ \A i \in 1 .. Len(t.repeat) :
                   fnOut.val.tests[i].name
                       = Substituted(t.name, t.repeat[i], 1)

(***************************************************************************)
(* C10: for a template of either variant whose repeat list is empty,       *)
(* do_repeat returns a list of exactly one element, equal to the template  *)
(* with no field changed.                                                  *)
(***************************************************************************)
C10_EmptyRepeatReturnsTemplate ==
    (fnOut.fn = "do_repeat" /\ fnIn.template.repeat = <<>>) =>
        /\ fnOut.val.ok
        /\ Len(fnOut.val.tests) = 1
        /\ fnOut.val.tests[1] = fnIn.template

C10_Witness ==
    /\ fnOut.fn = "do_repeat"
    /\ fnIn.template.type = "multi_cmd"
    /\ fnIn.template.repeat = <<>>
    /\ fnIn.template.commands # <<>>
    /\ fnOut.val.tests = <<fnIn.template>>

(***************************************************************************)
(* C11: when one substitution map of a template carries the reserved key   *)
(* _override with the value {cmd: "echo override"}, do_repeat replaces the *)
(* cmd of the instance expanded from that map, and of that one only: the   *)
(* instances of the other maps are what they are without the override.     *)
(***************************************************************************)
HasOverride(map) == HasKey(map, OverrideKey)

C11_Applies ==
    /\ fnOut.fn = "do_repeat"
    /\ fnIn.template \in OverrideTemplates
    /\ \A i \in 1 .. Len(fnIn.template.repeat) :
           HasOverride(fnIn.template.repeat[i]) =>
               Lookup(fnIn.template.repeat[i], OverrideKey) = CmdOverride

C11_OverrideReplacesCmd ==
    C11_Applies =>
        LET t == fnIn.template
        IN  /\ fnOut.val.ok
            /\ Len(fnOut.val.tests) = Len(t.repeat)
            /\ \A i \in 1 .. Len(t.repeat) :
                   IF HasOverride(t.repeat[i])
                   THEN fnOut.val.tests[i].cmd = CmdOverride.map[1].value.str
                   ELSE fnOut.val.tests[i]
                            = SingleCmdRepeatOne(t, t.repeat[i])

\* The part of C11 that the code keeps: the instances of the maps without
\* the reserved key are not affected by the map that carries it.
C11_OtherInstancesUnaffected ==
    C11_Applies =>
        LET t == fnIn.template
        IN  /\ fnOut.val.ok
            /\ Len(fnOut.val.tests) = Len(t.repeat)
            /\ \A i \in 1 .. Len(t.repeat) :
                   ~HasOverride(t.repeat[i]) =>
                       fnOut.val.tests[i] = SingleCmdRepeatOne(t, t.repeat[i])

(***************************************************************************)
(* C12: do_repeat fails with ConfigError and yields no test case when the  *)
(* _override value of a substitution map is no mapping or names a key that *)
(* is not a top-level field of the test case; _override is never replaced  *)
(* in a text as a placeholder is.                                          *)
(***************************************************************************)
BadOverride(map) ==
    /\ HasOverride(map)
    /\ LET value == Lookup(map, OverrideKey)
       IN  \/ DOMAIN value # {"map"}
           \/ \E n \in 1 .. Len(value.map) :
                  value.map[n].key \notin SingleCmdFieldNames

C12_Applies ==
    /\ fnOut.fn = "do_repeat"
    /\ fnIn.template \in OverrideTemplates
    /\ \E i \in 1 .. Len(fnIn.template.repeat) :
           BadOverride(fnIn.template.repeat[i])

C12_BadOverrideFails ==
    C12_Applies =>
        /\ ~fnOut.val.ok
        /\ fnOut.val.error = "AGConfigError"

(***************************************************************************)
(* The remote service.  Each table lists its objects in the order the      *)
(* service returns them; a POST appends an object with a fresh primary     *)
(* key, a PATCH replaces the fields its body names.                        *)
(***************************************************************************)
Max(S) == CHOOSE x \in S : \A y \in S : y <= x

Range(list) == {list[i] : i \in 1 .. Len(list)}

\* {item[key]: item for item in list}: the last item of a key wins
DictBy(list, key) ==
    [k \in {list[i][key] : i \in 1 .. Len(list)} |->
        list[Max({i \in 1 .. Len(list) : list[i][key] = k})]]

\* A table that is not updated.
DictKept(d, key, item) == d

\* d | {key: item}
DictPut(d, key, item) ==
    [k \in DOMAIN d \cup {key} |-> IF k = key THEN item ELSE d[k]]

EmptyDict == <<>>

\* The object after a PATCH with the body: the fields of the body that the
\* object has are replaced.
Patched(obj, body) ==
    [f \in DOMAIN obj |-> IF f \in DOMAIN body THEN body[f] ELSE obj[f]]

\* The table after a PATCH of the object with the primary key.
PatchByPk(table, pk, body) ==
    [i \in 1 .. Len(table) |->
        IF table[i].pk = pk THEN Patched(table[i], body) ELSE table[i]]

ByPk(table, pk) == table[CHOOSE i \in 1 .. Len(table) : table[i].pk = pk]

\* A project as the service creates it from {"name": name}.
NewRemoteProject(pk, name) ==
    [pk |-> pk, name |-> name,
     guests_can_submit |-> FALSE,
     soft_closing_time |-> None, closing_time |-> None,
     send_email_on_submission_received |-> FALSE,
     send_email_on_non_deferred_tests_finished |-> FALSE,
     use_honor_pledge |-> FALSE, honor_pledge_text |-> ""]

\* An expected student file as the service creates it: the match counts
\* that the body leaves out are 1.
NewRemoteStudentFile(pk, project, body) ==
    Patched([pk |-> pk, project |-> project, pattern |-> "",
             min_num_matches |-> 1, max_num_matches |-> 1],
            body)

NewRemoteInstructorFile(pk, project, name, content) ==
    [pk |-> pk, project |-> project, name |-> name, content |-> content]

NewRemoteSuite(pk, project, body) ==
    Patched([pk |-> pk, project |-> project, name |-> "",
             sandbox_docker_image |-> None,
             student_files_needed |-> <<>>,
             instructor_files_needed |-> <<>>,
             normal_fdbk_config |-> None],
            body)

NewRemoteTestCase(pk, suite, body) ==
    Patched([pk |-> pk, ag_test_suite |-> suite, name |-> <<>>], body)

NewRemoteCommand(pk, test, body) ==
    Patched([pk |-> pk, ag_test_case |-> test, name |-> <<>>, cmd |-> <<>>,
             stdin_instructor_file |-> None,
             points_for_correct_return_code |-> 0,
             normal_fdbk_config |-> None],
            body)

\* GET /api/projects/<pk>/expected_student_files/ and the other lists
StudentFilesOf(r, project_pk) ==
    SelectSeq(r.student_files, LAMBDA f : f.project = project_pk)

InstructorFilesOf(r, project_pk) ==
    SelectSeq(r.instructor_files, LAMBDA f : f.project = project_pk)

CommandsOf(r, test_pk) ==
    SelectSeq(r.commands, LAMBDA c : c.ag_test_case = test_pk)

\* A test case as the service returns it, its commands nested.
TestCaseView(r, test) ==
    [pk |-> test.pk, name |-> test.name,
     ag_test_commands |-> CommandsOf(r, test.pk)]

TestCasesOf(r, suite_pk) ==
    LET own == SelectSeq(r.test_cases, LAMBDA t : t.ag_test_suite = suite_pk)
    IN  [i \in 1 .. Len(own) |-> TestCaseView(r, own[i])]

\* A suite as the service returns it, its test cases nested.
SuiteView(r, suite) ==
    [pk |-> suite.pk, name |-> suite.name,
     ag_test_cases |-> TestCasesOf(r, suite.pk)]

SuitesOf(r, project_pk) ==
    LET own == SelectSeq(r.suites, LAMBDA s : s.project = project_pk)
    IN  [i \in 1 .. Len(own) |-> SuiteView(r, own[i])]

\* PUT .../ag_test_suites/order/: the suites of the project are put in the
\* order of the primary keys given; the other suites keep their places
\* before them.
Reordered(suites, project_pk, order) ==
    SelectSeq(suites, LAMBDA s : s.project # project_pk)
    \o [i \in 1 .. Len(order) |-> ByPk(suites, order[i])]
    \o SelectSeq(suites, LAMBDA s : s.project = project_pk
                                 /\ s.pk \notin Range(order))

\* utils.get_project_from_course: the first project of the course with
\* exactly that name, None when there is none.
get_project_from_course(r, project_name) ==
    LET hits == {i \in 1 .. Len(r.projects) : r.projects[i].name = project_name}
    IN  IF hits = {} THEN None
        ELSE Some(r.projects[CHOOSE i \in hits : \A j \in hits : i <= j])

(***************************************************************************)
(* The configuration.                                                      *)
(***************************************************************************)
ProjectName == "P"

DefaultSettings ==
    [guests_can_submit |-> FALSE, deadline |-> None,
     send_email_receipts |-> PyBool(FALSE), honor_pledge |-> None,
     use_honor_pledge |-> FALSE, honor_pledge_text |-> ""]

ExactMatchExpectedStudentFile(filename) == [filename |-> filename]

FnmatchExpectedStudentFile(pattern, min_num_matches, max_num_matches) ==
    [pattern |-> pattern, min_num_matches |-> min_num_matches,
     max_num_matches |-> max_num_matches]

\* models._get_expected_student_file_discriminator on a typed object, a
\* raw mapping or a plain string ("" stands for None)
StudentFileDiscriminator(value) ==
    IF "filename" \in DOMAIN value THEN "exact_match"
    ELSE IF "pattern" \in DOMAIN value THEN "fnmatch"
    ELSE ""

\* ExactMatchExpectedStudentFile.__str__ and
\* FnmatchExpectedStudentFile.__str__
StudentFileStr(obj) ==
    IF "filename" \in DOMAIN obj THEN obj.filename ELSE obj.pattern

PyObj(o) == [object |-> o]

\* _ProjectSaver._get_expected_student_file_request_body: for an exact
\* match the body carries the configuration object itself as the pattern.
StudentFileRequestBody(obj) ==
    IF "filename" \in DOMAIN obj
    THEN [pattern |-> PyObj(obj)]
    ELSE [pattern |-> PyStr(obj.pattern),
          min_num_matches |-> obj.min_num_matches,
          max_num_matches |-> obj.max_num_matches]

\* json= of a request: a body whose pattern is an object, not a string,
\* cannot be encoded.
JsonSerializable(body) == DOMAIN body.pattern = {"str"}

\* The body as the service stores it: the JSON string unwrapped.
StoredFields(body) == [body EXCEPT !.pattern = @.str]

BuiltinSuitePresets == {"public", "pass/fail", "private"}

BuiltinCmdPresets ==
    {"pass/fail", "pass/fail+timeout", "pass/fail+exit_status",
     "pass/fail+output", "pass/fail+diff", "private", "public"}

(***************************************************************************)
(* save_project: one action for each remote call of the run.               *)
(***************************************************************************)
MaxSaves == 2

\* AGConfig.model_validate: the settings hold a bool for the email receipts
\* and a fixed cutoff that is no earlier than its deadline.
ValidConfig(config) ==
    /\ ValidSendEmailReceipts(config.settings.send_email_receipts)
    /\ ValidDeadline(config.settings.deadline)

\* ProjectSettings.soft_closing_time and closing_time, the computed fields
\* that model_dump emits; for a deadline that is set the legacy dict
\* replaces them.
ComputedClosingTimes(settings) ==
    LET legacy == MakeLegacyProjectApiDict(settings.deadline)
    IN  IF legacy.present
        THEN [soft_closing_time |-> legacy.soft_closing_time,
              closing_time |-> legacy.closing_time]
        ELSE [soft_closing_time |-> None, closing_time |-> None]

\* A mutant of the settings request body: the closing times are left out
\* when the deadline is unset.
SettingsRequestBodySparse(settings) ==
    LET rest == [guests_can_submit |-> settings.guests_can_submit,
                 send_email_on_submission_received |->
                     send_email_on_submission_received(settings),
                 send_email_on_non_deferred_tests_finished |->
                     send_email_on_non_deferred_tests_finished(settings),
                 use_honor_pledge |-> settings.use_honor_pledge,
                 honor_pledge_text |-> settings.honor_pledge_text]
    IN  IF settings.deadline = None THEN rest
        ELSE [f \in DOMAIN rest \cup {"soft_closing_time", "closing_time"} |->
                 IF f \in DOMAIN rest THEN rest[f]
                 ELSE ComputedClosingTimes(settings)[f]]

\* The request body of the settings PATCH: the dump of every settings
\* field but send_email_receipts, deadline and honor_pledge, overlaid with
\* the legacy dict.
SettingsRequestBody(settings) ==
    [guests_can_submit |-> settings.guests_can_submit,
     soft_closing_time |-> ComputedClosingTimes(settings).soft_closing_time,
     closing_time |-> ComputedClosingTimes(settings).closing_time,
     send_email_on_submission_received |->
         send_email_on_submission_received(settings),
     send_email_on_non_deferred_tests_finished |->
         send_email_on_non_deferred_tests_finished(settings),
     use_honor_pledge |-> settings.use_honor_pledge,
     honor_pledge_text |-> settings.honor_pledge_text]

\* One write request: the key is the name or the pattern the entry is
\* reconciled by, the name of a test as the text it is, any other as a
\* one-element tuple.
Call(op, kind, key, target, body) ==
    [op |-> op, kind |-> kind, key |-> key, target |-> target, body |-> body]

\* The run ends, in success ("done") or by the exception raised; status is
\* the status of the last response, 0 when no request was made.
EndOfRun(outcome, error, r, cs) ==
    /\ hist' = Append(hist, [config |-> run.config, outcome |-> outcome,
                             error |-> error, remote |-> r, calls |-> cs,
                             warnings |-> run.warnings, status |-> 200])
    /\ run' = Idle
    /\ calls' = <<>>

Fails(error) ==
    /\ EndOfRun("failed", error, remote, calls)
    /\ UNCHANGED remote

\* A mutant of _ProjectSaver.__init__: the project is taken to be absent
\* without being looked up.
NewRunWithoutLookup(config, r) ==
    [pc |-> "create_project", config |-> config, project_pk |-> 0,
     student_files |-> EmptyDict, instructor_files |-> EmptyDict,
     sandbox_images |-> EmptyDict, images_loaded |-> FALSE,
     test_suites |-> EmptyDict,
     existing_tests |-> EmptyDict, test_data |-> None,
     i |-> 1, j |-> 1, k |-> 1, warnings |-> {}]

\* _ProjectSaver.__init__: the configuration is validated and the project
\* looked up by name; project_pk 0 stands for None.
NewRun(config, r) ==
    LET project == get_project_from_course(r, config.name)
    IN  [pc |-> IF project = None THEN "create_project" ELSE "patch_settings",
         config |-> config,
         project_pk |-> IF project = None THEN 0 ELSE project[1].pk,
         student_files |-> EmptyDict, instructor_files |-> EmptyDict,
         sandbox_images |-> EmptyDict, images_loaded |-> FALSE,
         test_suites |-> EmptyDict,
         existing_tests |-> EmptyDict, test_data |-> None,
         i |-> 1, j |-> 1, k |-> 1, warnings |-> {}]

StartSaveOf(config) ==
    /\ run = Idle
    /\ Len(hist) < MaxSaves
    /\ IF ValidConfig(config)
       THEN /\ run' = NewRun(config, remote)
            /\ UNCHANGED hist
       ELSE hist' = Append(hist, [config |-> config, outcome |-> "failed",
                                  error |-> "ValidationError",
                                  remote |-> remote, calls |-> <<>>,
                                  warnings |-> {}, status |-> 0])
            /\ UNCHANGED run
    /\ UNCHANGED <<fnIn, fnOut, remote, calls, loaded>>

\* save_project, the project POST
CreateProject ==
    /\ run.pc = "create_project"
    /\ remote' = [remote EXCEPT
                     !.projects = Append(@, NewRemoteProject(
                                                remote.next_pk,
                                                run.config.name)),
                     !.next_pk = @ + 1]
    /\ run' = [run EXCEPT !.project_pk = remote.next_pk,
                          !.pc = "patch_settings"]
    /\ calls' = Append(calls, Call("CREATE", "project", Some(run.config.name), 0,
                                   [name |-> run.config.name]))
    /\ UNCHANGED <<fnIn, fnOut, hist, loaded>>

\* save_project, the settings PATCH
PatchSettings ==
    /\ run.pc = "patch_settings"
    /\ LET request_body == SettingsRequestBody(run.config.settings)
       IN  /\ remote' = [remote EXCEPT
                            !.projects = PatchByPk(@, run.project_pk,
                                                   request_body)]
           /\ calls' = Append(calls, Call("UPDATE", "project",
                                          Some(run.config.name),
                                          run.project_pk,
                                          request_body))
    /\ run' = [run EXCEPT !.pc = "list_student_files"]
    /\ UNCHANGED <<fnIn, fnOut, hist, loaded>>

\* _save_expected_student_files, the GET of the remote list
ListStudentFiles ==
    /\ run.pc = "list_student_files"
    /\ run' = [run EXCEPT
                  !.student_files =
                      DictBy(StudentFilesOf(remote, run.project_pk),
                             "pattern"),
                  !.i = 1, !.pc = "student_files"]
    /\ UNCHANGED <<fnIn, fnOut, remote, calls, hist, loaded>>

\* `key in dict` of the reconciliation loops
IsKnown(key, dict) == key \in DOMAIN dict

\* _save_expected_student_files, one pass of the loop over the entries
SaveStudentFile ==
    /\ run.pc = "student_files"
    /\ run.i <= Len(run.config.student_files)
    /\ LET student_file_config == run.config.student_files[run.i]
           pattern == StudentFileStr(student_file_config)
           body == StudentFileRequestBody(student_file_config)
       IN  IF ~JsonSerializable(body) THEN Fails("TypeError")
           ELSE /\ IF ~IsKnown(pattern, run.student_files)
                   THEN /\ remote' = [remote EXCEPT
                               !.student_files = Append(@,
                                   NewRemoteStudentFile(remote.next_pk,
                                       run.project_pk, StoredFields(body))),
                               !.next_pk = @ + 1]
                        /\ calls' = Append(calls,
                               Call("CREATE", "student_file", Some(pattern),
                                    run.project_pk, body))
                   ELSE /\ remote' = [remote EXCEPT
                               !.student_files = PatchByPk(@,
                                   run.student_files[pattern].pk,
                                   StoredFields(body))]
                        /\ calls' = Append(calls,
                               Call("UPDATE", "student_file", Some(pattern),
                                    run.student_files[pattern].pk, body))
                /\ run' = [run EXCEPT !.i = @ + 1]
                /\ UNCHANGED hist
    /\ UNCHANGED <<fnIn, fnOut, loaded>>

\* A mutant of the warnings: no entry is reported.
NotInYmlSilent(known, in_yml) == {}

\* set(self.student_files) - patterns_in_yml, and the same for the
\* instructor files: the remote entries that get a warning.
NotInYml(known, in_yml) == DOMAIN known \ in_yml

\* _save_expected_student_files, the warnings after the loop
WarnStudentFiles ==
    /\ run.pc = "student_files"
    /\ run.i > Len(run.config.student_files)
    /\ LET patterns_in_yml ==
               {StudentFileStr(f) : f \in Range(run.config.student_files)}
           patterns_not_in_yml == NotInYml(run.student_files, patterns_in_yml)
       IN  run' = [run EXCEPT
                      !.warnings = @ \cup {<<"student_file", p>> :
                                             p \in patterns_not_in_yml},
                      !.pc = "list_instructor_files"]
    /\ UNCHANGED <<fnIn, fnOut, remote, calls, hist, loaded>>

\* _save_instructor_files, the GET of the remote list
ListInstructorFiles ==
    /\ run.pc = "list_instructor_files"
    /\ run' = [run EXCEPT
                  !.instructor_files =
                      DictBy(InstructorFilesOf(remote, run.project_pk),
                             "name"),
                  !.i = 1, !.pc = "instructor_files"]
    /\ UNCHANGED <<fnIn, fnOut, remote, calls, hist, loaded>>

\* _save_instructor_files, one pass of the outer loop: the local path
\* names one file of the configuration directory, or none.
SaveInstructorFile ==
    /\ run.pc = "instructor_files"
    /\ run.i <= Len(run.config.instructor_files)
    /\ LET name == run.config.instructor_files[run.i].local_path
       IN  IF name \notin DOMAIN run.config.dir
           THEN /\ run' = [run EXCEPT !.i = @ + 1]
                /\ UNCHANGED <<remote, calls>>
           ELSE IF IsKnown(name, run.instructor_files)
           THEN LET pk == run.instructor_files[name].pk
                    content == [content |-> run.config.dir[name]]
                IN  /\ remote' = [remote EXCEPT
                           !.instructor_files = PatchByPk(@, pk, content)]
                    /\ calls' = Append(calls,
                           Call("UPDATE", "instructor_file", Some(name), pk,
                                content))
                    /\ run' = [run EXCEPT
                           !.instructor_files = DictPut(@, name,
                               ByPk(remote'.instructor_files, pk)),
                           !.i = @ + 1]
           ELSE LET created == NewRemoteInstructorFile(
                                   remote.next_pk, run.project_pk, name,
                                   run.config.dir[name])
                IN  /\ remote' = [remote EXCEPT
                           !.instructor_files = Append(@, created),
                           !.next_pk = @ + 1]
                    /\ calls' = Append(calls,
                           Call("CREATE", "instructor_file", Some(name),
                                run.project_pk,
                                [content |-> run.config.dir[name]]))
                    /\ run' = [run EXCEPT
                           !.instructor_files = DictPut(@, name, created),
                           !.i = @ + 1]
    /\ UNCHANGED <<fnIn, fnOut, hist, loaded>>

\* _save_instructor_files, the warnings after the loop
WarnInstructorFiles ==
    /\ run.pc = "instructor_files"
    /\ run.i > Len(run.config.instructor_files)
    /\ LET files_in_yml ==
               {f.local_path : f \in Range(run.config.instructor_files)}
                   \cap DOMAIN run.config.dir
           files_not_in_yml == NotInYml(run.instructor_files, files_in_yml)
       IN  run' = [run EXCEPT
                      !.warnings = @ \cup {<<"instructor_file", f>> :
                                             f \in files_not_in_yml},
                      !.pc = "load_sandbox_images"]
    /\ UNCHANGED <<fnIn, fnOut, remote, calls, hist, loaded>>

\* _load_sandbox_images
LoadSandboxImages ==
    /\ run.pc = "load_sandbox_images"
    /\ run' = [run EXCEPT
                  !.sandbox_images = DictBy(remote.sandbox_images,
                                            "display_name"),
                  !.images_loaded = TRUE,
                  !.pc = "list_test_suites"]
    /\ UNCHANGED <<fnIn, fnOut, remote, calls, hist, loaded>>

\* _save_test_suites, the GET of the remote list
ListTestSuites ==
    /\ run.pc = "list_test_suites"
    /\ run' = [run EXCEPT
                  !.test_suites = DictBy(SuitesOf(remote, run.project_pk),
                                         "name"),
                  !.i = 1, !.pc = "test_suites"]
    /\ UNCHANGED <<fnIn, fnOut, remote, calls, hist, loaded>>

\* _make_save_test_suite_request_body: each lookup is a plain subscript
\* of the dict the run holds, a KeyError when the key is missing.
SuiteRequestBody(saver, suite_config) ==
    IF suite_config.sandbox_docker_image \notin DOMAIN saver.sandbox_images
    THEN Raise("KeyError")
    ELSE IF \E n \in 1 .. Len(suite_config.student_files_needed) :
                suite_config.student_files_needed[n]
                    \notin DOMAIN saver.student_files
    THEN Raise("KeyError")
    ELSE IF \E n \in 1 .. Len(suite_config.instructor_files_needed) :
                suite_config.instructor_files_needed[n]
                    \notin DOMAIN saver.instructor_files
    THEN Raise("KeyError")
    ELSE IF suite_config.normal_fdbk_config
                \notin DOMAIN saver.config.feedback_presets_test_suite_setup
    THEN Raise("KeyError")
    ELSE [ok |-> TRUE,
          body |->
              [name |-> suite_config.name,
               sandbox_docker_image |->
                   saver.sandbox_images[suite_config.sandbox_docker_image],
               student_files_needed |->
                   [n \in 1 .. Len(suite_config.student_files_needed) |->
                       saver.student_files[
                           suite_config.student_files_needed[n]]],
               instructor_files_needed |->
                   [n \in 1 .. Len(suite_config.instructor_files_needed) |->
                       saver.instructor_files[
                           suite_config.instructor_files_needed[n]]],
               normal_fdbk_config |->
                   saver.config.feedback_presets_test_suite_setup[
                       suite_config.normal_fdbk_config]]]

\* The suite fields as the service stores them: the objects a body names
\* are kept by primary key.
StoredSuiteFields(body) ==
    [body EXCEPT
        !.sandbox_docker_image = Some(@.pk),
        !.student_files_needed = [n \in 1 .. Len(@) |-> @[n].pk],
        !.instructor_files_needed = [n \in 1 .. Len(@) |-> @[n].pk],
        !.normal_fdbk_config = Some(@)]

\* _save_test_suites, one pass of the loop up to the test cases: the suite
\* is created or updated, and the test cases it is known to hold are read
\* from the dict of suites.
SaveTestSuite ==
    /\ run.pc = "test_suites"
    /\ run.i <= Len(run.config.test_suites)
    /\ LET suite_data == run.config.test_suites[run.i]
           request == SuiteRequestBody(run, suite_data)
       IN  IF ~request.ok THEN Fails(request.error)
           ELSE IF ~IsKnown(suite_data.name, run.test_suites)
           THEN LET created == NewRemoteSuite(
                                   remote.next_pk, run.project_pk,
                                   StoredSuiteFields(request.body))
                    response == [pk |-> created.pk, name |-> created.name,
                                 ag_test_cases |-> <<>>]
                IN  /\ remote' = [remote EXCEPT !.suites = Append(@, created),
                                                !.next_pk = @ + 1]
                    /\ calls' = Append(calls,
                           Call("CREATE", "test_suite", Some(suite_data.name),
                                run.project_pk, request.body))
                    /\ run' = [run EXCEPT
                           !.test_suites = DictPut(@, suite_data.name,
                                                   response),
                           !.existing_tests = EmptyDict,
                           !.j = 1, !.k = 1, !.pc = "test_cases"]
                    /\ UNCHANGED hist
           ELSE LET known == run.test_suites[suite_data.name]
                IN  /\ remote' = [remote EXCEPT
                           !.suites = PatchByPk(@, known.pk,
                               StoredSuiteFields(request.body))]
                    /\ calls' = Append(calls,
                           Call("UPDATE", "test_suite", Some(suite_data.name),
                                known.pk, request.body))
                    /\ run' = [run EXCEPT
                           !.existing_tests =
                               DictBy(known.ag_test_cases,
                                      "name"),
                           !.j = 1, !.k = 1, !.pc = "test_cases"]
                    /\ UNCHANGED hist
    /\ UNCHANGED <<fnIn, fnOut, loaded>>

\* tests.do_repeat() for either variant
DoRepeat(tests) ==
    IF tests.type = "single_cmd" THEN SingleCmdDoRepeat(tests)
    ELSE MultiCmdDoRepeat(tests)

\* The position after the test case at (j, k) of the suite.
NextTestPosition(saver, expanded) ==
    IF saver.k < Len(expanded)
    THEN [saver EXCEPT !.k = @ + 1, !.pc = "test_cases", !.test_data = None]
    ELSE [saver EXCEPT !.j = @ + 1, !.k = 1, !.pc = "test_cases",
                       !.test_data = None]

\* _save_test_case up to the command: the test case is created or updated
\* by its expanded name, looked up in the test cases the suite was known to
\* hold when its loop began.
SaveTestCase ==
    /\ run.pc = "test_cases"
    /\ run.j <= Len(run.config.test_suites[run.i].test_cases)
    /\ LET suite_data == run.config.test_suites[run.i]
           suite_pk == run.test_suites[suite_data.name].pk
           repeated == DoRepeat(suite_data.test_cases[run.j])
       IN  IF ~repeated.ok THEN Fails(repeated.error)
           ELSE LET test == repeated.tests[run.k]
                    body == [name |-> test.name]
                IN  /\ IF ~IsKnown(test.name, run.existing_tests)
                       THEN LET created == NewRemoteTestCase(
                                               remote.next_pk, suite_pk, body)
                            IN  /\ remote' = [remote EXCEPT
                                       !.test_cases = Append(@, created),
                                       !.next_pk = @ + 1]
                                /\ calls' = Append(calls,
                                       Call("CREATE", "test_case", test.name,
                                            suite_pk, body))
                                /\ run' = [run EXCEPT
                                       !.test_data =
                                           Some(TestCaseView(remote', created)),
                                       !.pc = "command"]
                       ELSE LET pk == run.existing_tests[test.name].pk
                            IN  /\ remote' = [remote EXCEPT
                                       !.test_cases = PatchByPk(@, pk, body)]
                                /\ calls' = Append(calls,
                                       Call("UPDATE", "test_case", test.name,
                                            pk, body))
                                /\ run' = [run EXCEPT
                                       !.test_data =
                                           Some(TestCaseView(remote',
                                               ByPk(remote'.test_cases, pk))),
                                       !.pc = "command"]
                    /\ UNCHANGED hist
    /\ UNCHANGED <<fnIn, fnOut, loaded>>

\* _make_save_single_cmd_test_request_body: the instructor file is looked
\* up with _get_instructor_file, the points are made an int, the feedback
\* preset is a plain subscript of the presets of the configuration.
SingleCmdRequestBody(saver, test) ==
    IF /\ test.stdin_instructor_file # None
       /\ test.stdin_instructor_file[1] \notin DOMAIN saver.instructor_files
    THEN Raise("AGConfigError")
    ELSE IF DOMAIN test.points_for_correct_return_code # {"int"}
    THEN Raise("ValueError")
    ELSE IF test.normal_fdbk_config \notin DOMAIN saver.config.feedback_presets
    THEN Raise("KeyError")
    ELSE [ok |-> TRUE,
          body |->
              [name |-> test.name, cmd |-> test.cmd,
               stdin_instructor_file |->
                   IF test.stdin_instructor_file = None THEN None
                   ELSE Some(saver.instructor_files[
                                 test.stdin_instructor_file[1]]),
               points_for_correct_return_code |->
                   test.points_for_correct_return_code.int,
               normal_fdbk_config |->
                   Some(saver.config.feedback_presets[
                            test.normal_fdbk_config])]]

StoredCommandFields(body) ==
    [body EXCEPT !.stdin_instructor_file =
                     IF @ = None THEN None ELSE Some(@[1].pk)]

\* _save_test_case, the command: for a single-command test the command is
\* created or updated by the name of the test; for a multi-command test
\* the loop over the commands does nothing.
SaveCommand ==
    /\ run.pc = "command"
    /\ LET suite_data == run.config.test_suites[run.i]
           expanded == DoRepeat(suite_data.test_cases[run.j]).tests
           test == expanded[run.k]
           test_data == run.test_data[1]
           existing_cmds == DictBy(test_data.ag_test_commands,
                                   "name")
       IN  IF test.type = "multi_cmd"
           THEN /\ run' = NextTestPosition(run, expanded)
                /\ UNCHANGED <<remote, calls, hist>>
           ELSE LET request == SingleCmdRequestBody(run, test)
                IN  IF ~request.ok THEN Fails(request.error)
                    ELSE /\ IF ~IsKnown(test.name, existing_cmds)
                            THEN /\ remote' = [remote EXCEPT
                                        !.commands = Append(@,
                                            NewRemoteCommand(
                                                remote.next_pk, test_data.pk,
                                                StoredCommandFields(
                                                    request.body))),
                                        !.next_pk = @ + 1]
                                 /\ calls' = Append(calls,
                                        Call("CREATE", "command", test.name,
                                             test_data.pk, request.body))
                            ELSE /\ remote' = [remote EXCEPT
                                        !.commands = PatchByPk(@,
                                            existing_cmds[test.name].pk,
                                            StoredCommandFields(
                                                request.body))]
                                 /\ calls' = Append(calls,
                                        Call("UPDATE", "command", test.name,
                                             existing_cmds[test.name].pk,
                                             request.body))
                         /\ run' = NextTestPosition(run, expanded)
                         /\ UNCHANGED hist
    /\ UNCHANGED <<fnIn, fnOut, loaded>>

\* _save_test_suites, the end of one pass of the loop over the suites
NextTestSuite ==
    /\ run.pc = "test_cases"
    /\ run.j > Len(run.config.test_suites[run.i].test_cases)
    /\ run' = [run EXCEPT !.i = @ + 1, !.pc = "test_suites"]
    /\ UNCHANGED <<fnIn, fnOut, remote, calls, hist, loaded>>

\* The primary keys as the table of the run lists them, by suite name.
SuiteOrderOfTable(saver) ==
    LET pks == {saver.test_suites[suite.name].pk :
                   suite \in Range(saver.config.test_suites)}
        Sorted[left \in SUBSET pks] ==
            IF left = {} THEN <<>>
            ELSE LET least == CHOOSE pk \in left : \A o \in left : pk <= o
                 IN  <<least>> \o Sorted[left \ {least}]
    IN  Sorted[pks]

\* suite_order: the primary keys of the suites of the configuration, in
\* the order of the configuration
SuiteOrder(saver) ==
    [n \in 1 .. Len(saver.config.test_suites) |->
        saver.test_suites[saver.config.test_suites[n].name].pk]

\* _save_test_suites, the PUT of the suite order, which ends the run
OrderSuites ==
    /\ run.pc = "test_suites"
    /\ run.i > Len(run.config.test_suites)
    /\ LET suite_order == SuiteOrder(run)
           ordered == [remote EXCEPT
                          !.suites = Reordered(@, run.project_pk, suite_order)]
       IN  /\ remote' = ordered
           /\ EndOfRun("done", "",  ordered,
                       Append(calls, Call("ORDER", "test_suite", <<>>,
                                          run.project_pk,
                                          [order |-> suite_order])))
    /\ UNCHANGED <<fnIn, fnOut, loaded>>

(***************************************************************************)
(* load_project                                                            *)
(***************************************************************************)
\* The value _load_expected_student_files hands to the validation: the
\* plain pattern string when both match counts are 1, the item otherwise.
LoadedStudentFileValue(item) ==
    IF item.min_num_matches = 1 /\ item.max_num_matches = 1
    THEN PyStr(item.pattern)
    ELSE item

\* The validation of one value against ExpectedStudentFile: the tag the
\* discriminator returns selects the class; no tag is a validation error.
ValidateStudentFile(value) ==
    LET tag == StudentFileDiscriminator(value)
    IN  IF tag = "exact_match"
        THEN [ok |-> TRUE, val |-> ExactMatchExpectedStudentFile(value.filename)]
        ELSE IF tag = "fnmatch"
        THEN [ok |-> TRUE,
              val |-> FnmatchExpectedStudentFile(
                          value.pattern, value.min_num_matches,
                          value.max_num_matches)]
        ELSE Raise("ValidationError")

\* The presets of a configuration that names none of its own.
BuiltinCmdFdbkPresets == [n \in BuiltinCmdPresets |-> [preset |-> n]]

BuiltinTestSuiteFdbkPresets == [n \in BuiltinSuitePresets |-> [preset |-> n]]

\* load_project: the settings, the expected student files and the
\* instructor files of the project, the contents of the instructor files
\* downloaded next to the configuration file.
LoadProject(r, project_name, deadline_cutoff_preference) ==
    LET found == get_project_from_course(r, project_name)
    IN  IF found = None THEN Raise("AGConfigError")
        ELSE
        LET project_data == found[1]
            receipts == ProcessEmailReceipts(project_data)
            student_file_data == StudentFilesOf(r, project_data.pk)
            instructor_file_data == InstructorFilesOf(r, project_data.pk)
            validated == [n \in 1 .. Len(student_file_data) |->
                             ValidateStudentFile(LoadedStudentFileValue(
                                 student_file_data[n]))]
        IN  IF ~ValidSendEmailReceipts(receipts)
            THEN Raise("ValidationError")
            ELSE IF \E n \in 1 .. Len(validated) : ~validated[n].ok
            THEN Raise("ValidationError")
            ELSE
            [ok |-> TRUE,
             config |->
                 [name |-> project_name,
                  settings |->
                      [guests_can_submit |-> project_data.guests_can_submit,
                       deadline |-> ProcessDeadline(
                                        project_data,
                                        deadline_cutoff_preference),
                       send_email_receipts |-> receipts,
                       honor_pledge |->
                           IF project_data.use_honor_pledge
                           THEN Some(project_data.honor_pledge_text)
                           ELSE None,
                       use_honor_pledge |-> DefaultSettings.use_honor_pledge,
                       honor_pledge_text |-> DefaultSettings.honor_pledge_text],
                  student_files |->
                      [n \in 1 .. Len(validated) |-> validated[n].val],
                  instructor_files |->
                      [n \in 1 .. Len(instructor_file_data) |->
                          [local_path |-> instructor_file_data[n].name]],
                  dir |-> [name \in {f.name : f \in Range(instructor_file_data)}
                              |-> DictBy(instructor_file_data,
                                         "name")[name].content],
                  test_suites |-> <<>>,
                  feedback_presets |-> BuiltinCmdFdbkPresets,
                  feedback_presets_test_suite_setup |->
                      BuiltinTestSuiteFdbkPresets]]

\* One load of the project, between runs of save.
Load(deadline_cutoff_preference) ==
    /\ run = Idle
    /\ loaded = None
    /\ LET result == LoadProject(remote, ProjectName,
                                 deadline_cutoff_preference)
           found == get_project_from_course(remote, ProjectName)
       IN  loaded' = [ok |-> result.ok,
                      error |-> IF result.ok THEN "" ELSE result.error,
                      config |-> IF result.ok THEN result.config ELSE None,
                      preference |-> deadline_cutoff_preference,
                      at |-> Len(hist),
                      project_data |-> found]
    /\ UNCHANGED <<fnIn, fnOut, remote, run, calls, hist>>

(***************************************************************************)
(* The configurations that are saved and the remote states they are saved  *)
(* onto.                                                                   *)
(***************************************************************************)
ProjectConfig(settings, student_files, instructor_files, dir, test_suites) ==
    [name |-> ProjectName, settings |-> settings,
     student_files |-> student_files,
     instructor_files |-> instructor_files, dir |-> dir,
     test_suites |-> test_suites,
     feedback_presets |-> BuiltinCmdFdbkPresets,
     feedback_presets_test_suite_setup |-> BuiltinTestSuiteFdbkPresets]

TestSuiteConfig(name, student_files_needed, instructor_files_needed, test_cases) ==
    [name |-> name, sandbox_docker_image |-> "Default",
     student_files_needed |-> student_files_needed,
     instructor_files_needed |-> instructor_files_needed,
     normal_fdbk_config |-> "public", test_cases |-> test_cases]

SingleCmdTestCaseConfig(name, cmd, stdin_instructor_file, points, preset, repeat) ==
    [type |-> "single_cmd", name |-> name, cmd |-> cmd,
     stdin_instructor_file |-> stdin_instructor_file,
     points_for_correct_return_code |-> points,
     normal_fdbk_config |-> preset, repeat |-> repeat]

MultiCmdTestCaseConfig(name, commands, repeat) ==
    [type |-> "multi_cmd", name |-> name, commands |-> commands,
     repeat |-> repeat]

NoFiles == <<>>

PlainTest(name) ==
    SingleCmdTestCaseConfig(name, <<"r">>, None, PyInt(1), "pass/fail", <<>>)

\* Nothing but the name.
ConfigPlain == ProjectConfig(DefaultSettings, <<>>, <<>>, NoFiles, <<>>)

\* Settings, a pattern, an instructor file and a suite that needs both,
\* with a repeated test that reads the instructor file.
ConfigFull ==
    ProjectConfig(
        [DefaultSettings EXCEPT
            !.guests_can_submit = TRUE,
            !.deadline = DeadlineWithRelativeCutoff(1, 1),
            !.send_email_receipts = PyBool(TRUE),
            !.use_honor_pledge = TRUE,
            !.honor_pledge_text = "hp"],
        <<FnmatchExpectedStudentFile("b*", 0, 2)>>,
        <<[local_path |-> "f1"], [local_path |-> "f2"]>>,
        [name \in {"f1"} |-> "v1"],
        <<TestSuiteConfig("S2", <<>>, <<>>, <<>>),
          TestSuiteConfig("S1", <<"b*">>, <<"f1">>,
              <<SingleCmdTestCaseConfig(
                    <<"T", "$", "N">>, <<"r", "$", "N">>, Some("f1"),
                    PyStr(<<"$", "N">>), "pass/fail",
                    <<<<Item(<<"$", "N">>, PyInt(1))>>,
                      <<Item(<<"$", "N">>, PyInt(2))>>>>)>>)>>)

\* A suite that needs an expected student file of the same configuration.
ConfigNeedsDeclared ==
    ProjectConfig(
        [DefaultSettings EXCEPT !.deadline = DeadlineWithFixedCutoff(1, 2)],
        <<FnmatchExpectedStudentFile("a", 1, 1)>>, <<>>, NoFiles,
        <<TestSuiteConfig("S1", <<"a">>, <<>>, <<PlainTest(<<"T">>)>>)>>)

\* An expected student file given by its exact name.
ConfigExact ==
    ProjectConfig(DefaultSettings, <<ExactMatchExpectedStudentFile("a")>>,
                  <<>>, NoFiles, <<>>)

\* An honor pledge and a deadline without cutoff.
ConfigHonor ==
    ProjectConfig(
        [DefaultSettings EXCEPT !.honor_pledge = Some("hp"),
                                !.deadline = DeadlineWithNoCutoff(2)],
        <<>>, <<>>, NoFiles, <<>>)

\* Two tests of one name, a multi-command test, a pattern listed twice.
ConfigRepeated ==
    ProjectConfig(
        DefaultSettings,
        <<FnmatchExpectedStudentFile("b*", 0, 2),
          FnmatchExpectedStudentFile("b*", 0, 1)>>,
        <<>>, NoFiles,
        <<TestSuiteConfig("S1", <<>>, <<>>,
              <<PlainTest(<<"T">>), PlainTest(<<"T">>),
                MultiCmdTestCaseConfig(
                    <<"M">>, <<[name |-> <<"c">>, cmd |-> <<"r">>]>>,
                    <<>>)>>)>>)

\* A test that names a feedback preset that is not defined.
ConfigUnknownPreset ==
    ProjectConfig(
        DefaultSettings, <<>>, <<>>, NoFiles,
        <<TestSuiteConfig("S1", <<>>, <<>>,
              <<SingleCmdTestCaseConfig(<<"T">>, <<"r">>, None, PyInt(1),
                                        "nope", <<>>)>>)>>)

\* A test that reads an instructor file that does not exist.
ConfigUnknownFile ==
    ProjectConfig(
        DefaultSettings, <<>>, <<>>, NoFiles,
        <<TestSuiteConfig("S1", <<>>, <<>>,
              <<SingleCmdTestCaseConfig(<<"T">>, <<"r">>, Some("zz"),
                                        PyInt(1), "pass/fail", <<>>)>>)>>)

\* Settings that ask for one of the two email receipts only.
ConfigOneReceipt ==
    ProjectConfig(
        [DefaultSettings EXCEPT !.send_email_receipts = PyStr("on_received")],
        <<>>, <<>>, NoFiles, <<>>)

Configs ==
    {ConfigPlain, ConfigFull, ConfigNeedsDeclared, ConfigExact, ConfigHonor,
     ConfigRepeated, ConfigUnknownPreset, ConfigUnknownFile, ConfigOneReceipt}

\* Another project of the course, with a file of its own, and the default
\* sandbox image.
OtherProject == NewRemoteProject(1, "Q")

RemoteWithoutProject ==
    [projects |-> <<OtherProject>>,
     student_files |-> <<NewRemoteStudentFile(2, 1, [pattern |-> "a"])>>,
     instructor_files |-> <<>>,
     suites |-> <<>>, test_cases |-> <<>>, commands |-> <<>>,
     sandbox_images |-> <<[pk |-> 3, display_name |-> "Default"]>>,
     next_pk |-> 20]

\* The project with entries of every kind, one pattern and one file among
\* them that no configuration names.
RemotePopulated ==
    [RemoteWithoutProject EXCEPT
        !.projects = Append(@, NewRemoteProject(4, ProjectName)),
        !.student_files =
            @ \o <<NewRemoteStudentFile(5, 4, [pattern |-> "b*",
                                               min_num_matches |-> 0,
                                               max_num_matches |-> 3]),
                   NewRemoteStudentFile(6, 4, [pattern |-> "old*",
                                               min_num_matches |-> 0,
                                               max_num_matches |-> 3])>>,
        !.instructor_files =
            <<NewRemoteInstructorFile(7, 4, "f1", "v0"),
              NewRemoteInstructorFile(8, 4, "g1", "v0")>>,
        !.suites = <<NewRemoteSuite(9, 4, [name |-> "S1"]),
                     NewRemoteSuite(10, 4, [name |-> "S2"])>>,
        !.test_cases = <<NewRemoteTestCase(11, 9, [name |-> <<"T">>]),
                         NewRemoteTestCase(12, 9, [name |-> <<"T", "1">>])>>,
        !.commands = <<NewRemoteCommand(13, 11, [name |-> <<"T">>])>>]

\* The project with settings that differ from the defaults.
RemoteWithSettings ==
    [RemoteWithoutProject EXCEPT
        !.projects = Append(@,
            [NewRemoteProject(4, ProjectName) EXCEPT
                !.guests_can_submit = TRUE,
                !.soft_closing_time = isoformat(1),
                !.closing_time = isoformat(2),
                !.send_email_on_submission_received = TRUE,
                !.use_honor_pledge = TRUE,
                !.honor_pledge_text = "hp0"])]

InitialRemotes == {RemoteWithoutProject, RemotePopulated, RemoteWithSettings}

Init ==
    /\ fnIn = NoCall
    /\ fnOut = NoCall
    /\ remote \in InitialRemotes
    /\ run = Idle
    /\ calls = <<>>
    /\ hist = <<>>
    /\ loaded = None

\* save of one of the configurations
StartSave == \E config \in Configs : StartSaveOf(config)

\* save of the configuration that load wrote
StartSaveLoaded ==
    /\ loaded # None
    /\ loaded.ok
    /\ StartSaveOf(loaded.config)

LoadProjectStep == \E preference \in {"relative", "fixed"} : Load(preference)

SaveStep ==
    \/ CreateProject
    \/ PatchSettings
    \/ ListStudentFiles
    \/ SaveStudentFile
    \/ WarnStudentFiles
    \/ ListInstructorFiles
    \/ SaveInstructorFile
    \/ WarnInstructorFiles
    \/ LoadSandboxImages
    \/ ListTestSuites
    \/ SaveTestSuite
    \/ SaveTestCase
    \/ SaveCommand
    \/ NextTestSuite
    \/ OrderSuites

Next ==
    \/ StartSave
    \/ StartSaveLoaded
    \/ LoadProjectStep
    \/ SaveStep

Spec == Init /\ [][Next]_vars

(***************************************************************************)
(* C1: for any configuration and any initial remote state, a second run of *)
(* save with the same configuration leaves the remote state equal to the   *)
(* state after the first run, and the second run creates nothing: each of  *)
(* its mutating calls is an update with the body the first run sent for    *)
(* the same entry.                                                         *)
(***************************************************************************)
\* The call was made in the run with the same body for the same entry.
SentIn(saved, call) ==
    \E m \in 1 .. Len(saved.calls) :
        /\ saved.calls[m].kind = call.kind
        /\ saved.calls[m].key = call.key
        /\ saved.calls[m].body = call.body

C1_SecondSaveIdempotent ==
    \A h \in 1 .. Len(hist) - 1 :
        hist[h + 1].config = hist[h].config =>
            /\ hist[h + 1].remote = hist[h].remote
            /\ \A n \in 1 .. Len(hist[h + 1].calls) :
                   /\ hist[h + 1].calls[n].op # "CREATE"
                   /\ SentIn(hist[h], hist[h + 1].calls[n])

\* The part of C1 that the code keeps: after a run that succeeded, the
\* second run changes nothing and creates nothing.
C1_IdempotentAfterSuccess ==
    \A h \in 1 .. Len(hist) - 1 :
        (hist[h + 1].config = hist[h].config /\ hist[h].outcome = "done") =>
            /\ hist[h + 1].outcome = "done"
            /\ hist[h + 1].remote = hist[h].remote
            /\ \A n \in 1 .. Len(hist[h + 1].calls) :
                   hist[h + 1].calls[n].op # "CREATE"

(***************************************************************************)
(* C2: after a save of a configuration C that succeeded, load of the same  *)
(* project yields a configuration whose settings, expected student files   *)
(* and instructor files equal those of C, both when the save created the   *)
(* project and when it updated one.  The load is taken with the cutoff     *)
(* preference that fits the deadline of C.                                 *)
(***************************************************************************)
PreferenceFits(config, preference) ==
    \/ config.settings.deadline = None
    \/ config.settings.deadline.cutoff_type = "none"
    \/ config.settings.deadline.cutoff_type = preference

C2_Applies ==
    /\ loaded # None
    /\ loaded.at >= 1
    /\ hist[loaded.at].outcome = "done"
    /\ PreferenceFits(hist[loaded.at].config, loaded.preference)

C2_SaveThenLoad ==
    C2_Applies =>
        /\ loaded.ok
        /\ loaded.config.settings = hist[loaded.at].config.settings
        /\ loaded.config.student_files = hist[loaded.at].config.student_files
        /\ loaded.config.instructor_files
               = hist[loaded.at].config.instructor_files

\* The part of C2 that the code keeps: the deadline, the guest setting and
\* the email receipts of C come back from a load that succeeds.
C2_DeadlineSurvives ==
    (C2_Applies /\ loaded.ok) =>
        /\ loaded.config.settings.deadline
               = hist[loaded.at].config.settings.deadline
        /\ loaded.config.settings.guests_can_submit
               = hist[loaded.at].config.settings.guests_can_submit
        /\ loaded.config.settings.send_email_receipts
               = hist[loaded.at].config.settings.send_email_receipts

(***************************************************************************)
(* C3: for a remote project X without deadline-cutoff ambiguity and for    *)
(* either cutoff preference, the save of the configuration that load(X)    *)
(* wrote leaves the settings of the remote project equal to those of X:    *)
(* the soft deadline, the hard deadline, the two email-receipt booleans    *)
(* and the guest setting.                                                  *)
(***************************************************************************)
RoundTripProjects ==
    {[NewRemoteProject(4, ProjectName) EXCEPT
         !.guests_can_submit = guests,
         !.soft_closing_time = pd.soft_closing_time,
         !.closing_time = pd.closing_time,
         !.send_email_on_submission_received =
             pd.send_email_on_submission_received,
         !.send_email_on_non_deferred_tests_finished =
             pd.send_email_on_non_deferred_tests_finished] :
        pd \in ProjectDataInputs, guests \in BOOLEAN}

RoundTripRemotes ==
    {[RemoteWithoutProject EXCEPT
         !.projects = Append(@, project),
         !.student_files = @ \o student_files,
         !.instructor_files = instructor_files] :
        project \in RoundTripProjects,
        student_files \in
            {<<>>,
             <<NewRemoteStudentFile(5, 4, [pattern |-> "b*",
                                           min_num_matches |-> 0,
                                           max_num_matches |-> 2])>>,
             <<NewRemoteStudentFile(5, 4, [pattern |-> "a"])>>},
        instructor_files \in
            {<<>>, <<NewRemoteInstructorFile(7, 4, "f1", "v0")>>}}

InitRoundTrip ==
    /\ fnIn = NoCall
    /\ fnOut = NoCall
    /\ remote \in RoundTripRemotes
    /\ run = Idle
    /\ calls = <<>>
    /\ hist = <<>>
    /\ loaded = None

\* The steps of a save of a loaded configuration, which names a project
\* that exists and no suite.
NextRoundTrip ==
    \/ LoadProjectStep
    \/ StartSaveLoaded
    \/ PatchSettings
    \/ ListStudentFiles
    \/ SaveStudentFile
    \/ WarnStudentFiles
    \/ ListInstructorFiles
    \/ SaveInstructorFile
    \/ WarnInstructorFiles
    \/ LoadSandboxImages
    \/ ListTestSuites
    \/ OrderSuites

SpecRoundTrip == InitRoundTrip /\ [][NextRoundTrip]_vars

\* The one ambiguous case: a hard deadline without a soft one, which load
\* turns into a deadline with the default relative cutoff.
Unambiguous(project_data) ==
    ~(project_data.soft_closing_time = None /\ project_data.closing_time # None)

SameSettings(project, project_data) ==
    /\ project.soft_closing_time = project_data.soft_closing_time
    /\ project.closing_time = project_data.closing_time
    /\ project.send_email_on_submission_received
           = project_data.send_email_on_submission_received
    /\ project.send_email_on_non_deferred_tests_finished
           = project_data.send_email_on_non_deferred_tests_finished
    /\ project.guests_can_submit = project_data.guests_can_submit

C3_Applies ==
    /\ loaded # None
    /\ loaded.project_data # None
    /\ Unambiguous(loaded.project_data[1])

C3_SaveOfLoadKeepsSettings ==
    C3_Applies =>
        /\ loaded.ok
        /\ \A h \in 1 .. Len(hist) :
               /\ hist[h].outcome = "done"
               /\ SameSettings(
                      get_project_from_course(hist[h].remote, ProjectName)[1],
                      loaded.project_data[1])

\* The part of C3 that the code keeps: when load accepts the project, the
\* save of what it wrote keeps the settings.
C3_KeepsSettingsWhenLoaded ==
    (C3_Applies /\ loaded.ok) =>
        \A h \in 1 .. Len(hist) :
            /\ hist[h].outcome = "done"
            /\ SameSettings(
                   get_project_from_course(hist[h].remote, ProjectName)[1],
                   loaded.project_data[1])

(***************************************************************************)
(* C13: the settings PATCH of every run carries every settings field, so a *)
(* field that the configuration leaves at its default (the deadline, the   *)
(* email receipts, the honor pledge, the guest setting) has its default    *)
(* value on the remote project after the run, whatever an earlier run had  *)
(* set.                                                                    *)
(***************************************************************************)
SettingsFields ==
    {"guests_can_submit", "soft_closing_time", "closing_time",
     "send_email_on_submission_received",
     "send_email_on_non_deferred_tests_finished",
     "use_honor_pledge", "honor_pledge_text"}

SettingsPatches(saved) ==
    SelectSeq(saved.calls, LAMBDA c : c.kind = "project" /\ c.op = "UPDATE")

RemoteProjectOf(saved) ==
    get_project_from_course(saved.remote, saved.config.name)[1]

DefaultsRestored(saved) ==
    LET settings == saved.config.settings
        project == RemoteProjectOf(saved)
    IN  /\ settings.deadline = None =>
               /\ project.soft_closing_time = None
               /\ project.closing_time = None
        /\ settings.send_email_receipts = PyBool(FALSE) =>
               /\ ~project.send_email_on_submission_received
               /\ ~project.send_email_on_non_deferred_tests_finished
        /\ (settings.honor_pledge = None /\ ~settings.use_honor_pledge) =>
               ~project.use_honor_pledge
        /\ settings.honor_pledge_text = "" => project.honor_pledge_text = ""
        /\ ~settings.guests_can_submit => ~project.guests_can_submit

FileKinds == {"student_file", "instructor_file"}

SuiteKinds == {"test_suite", "test_case", "command"}

HasCall(log, kind, ops) ==
    \E m \in 1 .. Len(log) : log[m].kind = kind /\ log[m].op \in ops

\* The suite that the test case of the call belongs to, and the test case
\* that the command of the call belongs to, read from the service after
\* the call.
SuiteOfTestCall(r, call) ==
    IF call.op = "CREATE" THEN call.target
    ELSE ByPk(r.test_cases, call.target).ag_test_suite

TestOfCommandCall(r, call) ==
    IF call.op = "CREATE" THEN call.target
    ELSE ByPk(r.commands, call.target).ag_test_case

CallInOrder(log, call, before, after) ==
    /\ (call.kind = "project" /\ call.op = "CREATE") =>
           /\ get_project_from_course(before, run.config.name) = None
           /\ log = <<>>
    /\ (call.kind = "project" /\ call.op = "UPDATE") =>
           \A m \in 1 .. Len(log) : log[m].kind = "project"
    /\ call.kind \in FileKinds =>
           /\ HasCall(log, "project", {"UPDATE"})
           /\ ~run.images_loaded
           /\ \A m \in 1 .. Len(log) : log[m].kind \notin SuiteKinds
    /\ call.kind \in SuiteKinds =>
           /\ HasCall(log, "project", {"UPDATE"})
           /\ run.images_loaded
    /\ call.kind = "test_case" =>
           \E m \in 1 .. Len(log) :
               /\ log[m].kind = "test_suite"
               /\ log[m].key
                      = Some(ByPk(after.suites,
                                  SuiteOfTestCall(after, call)).name)
    /\ call.kind = "command" =>
           /\ log[Len(log)].kind = "test_case"
           /\ log[Len(log)].key
                  = ByPk(after.test_cases, TestOfCommandCall(after, call)).name

C14_DependencyOrder ==
    [][Len(calls') = Len(calls) + 1 =>
           CallInOrder(calls, calls'[Len(calls')], remote, remote')]_vars

C14_Witness ==
    /\ HasCall(calls, "project", {"CREATE"})
    /\ HasCall(calls, "student_file", {"CREATE"})
    /\ HasCall(calls, "test_suite", {"CREATE"})
    /\ HasCall(calls, "test_case", {"CREATE"})
    /\ HasCall(calls, "command", {"CREATE"})

(***************************************************************************)
(* C15: over any sequence of save runs, an expected student file or an     *)
(* instructor file of the project whose pattern or name the configuration  *)
(* does not hold is never deleted and never modified, no call is addressed *)
(* to it, and each run that carries out the file phases has emitted a      *)
(* warning for each such file when it loads the sandbox images.            *)
(***************************************************************************)
RemoteOnlyStudentFiles(r, saver) ==
    {f \in Range(r.student_files) :
        /\ f.project = saver.project_pk
        /\ f.pattern \notin {StudentFileStr(c) :
                                c \in Range(saver.config.student_files)}}

RemoteOnlyInstructorFiles(r, saver) ==
    {f \in Range(r.instructor_files) :
        /\ f.project = saver.project_pk
        /\ f.name \notin {c.local_path :
                             c \in Range(saver.config.instructor_files)}}

LeftAlone(r, after, log) ==
    /\ \A f \in RemoteOnlyStudentFiles(r, run) :
           /\ f \in Range(after.student_files)
           /\ \A m \in 1 .. Len(log) :
                  log[m].kind = "student_file" => log[m].target # f.pk
    /\ \A f \in RemoteOnlyInstructorFiles(r, run) :
           /\ f \in Range(after.instructor_files)
           /\ \A m \in 1 .. Len(log) :
                  log[m].kind = "instructor_file" => log[m].target # f.pk

Warned(r, saver) ==
    /\ \A f \in RemoteOnlyStudentFiles(r, saver) :
           <<"student_file", f.pattern>> \in saver.warnings
    /\ \A f \in RemoteOnlyInstructorFiles(r, saver) :
           <<"instructor_file", f.name>> \in saver.warnings

FailureStatuses == {404, 500}

\* A mutant of check_response_status: the error of the HTTP library is
\* raised, as raise_for_status does.
check_response_status_http_error(status) ==
    IF status \in 200 .. 299 THEN [ok |-> TRUE] ELSE Raise("HTTPError")

\* http_client.check_response_status
check_response_status(status) ==
    IF status \in 200 .. 299 THEN [ok |-> TRUE]
    ELSE Raise("RemoteRequestError")

\* The next step of the run sends a request: its body can be built and
\* encoded.
AboutToCall(saver) ==
    \/ saver.pc \in {"create_project", "patch_settings", "list_student_files",
                     "list_instructor_files", "load_sandbox_images",
                     "list_test_suites"}
    \/ /\ saver.pc = "student_files"
       /\ saver.i <= Len(saver.config.student_files)
       /\ JsonSerializable(
              StudentFileRequestBody(saver.config.student_files[saver.i]))
    \/ /\ saver.pc = "instructor_files"
       /\ saver.i <= Len(saver.config.instructor_files)
       /\ saver.config.instructor_files[saver.i].local_path
              \in DOMAIN saver.config.dir
    \/ /\ saver.pc = "test_suites"
       /\ saver.i <= Len(saver.config.test_suites) =>
              SuiteRequestBody(saver, saver.config.test_suites[saver.i]).ok
    \/ /\ saver.pc = "test_cases"
       /\ saver.j <= Len(saver.config.test_suites[saver.i].test_cases)
       /\ DoRepeat(saver.config.test_suites[saver.i].test_cases[saver.j]).ok
    \/ /\ saver.pc = "command"
       /\ LET test == DoRepeat(saver.config.test_suites[saver.i]
                                   .test_cases[saver.j]).tests[saver.k]
          IN  /\ test.type = "single_cmd"
              /\ SingleCmdRequestBody(saver, test).ok

\* The request of the next step is answered with a failure status: the
\* status check raises, nothing catches it, the run ends.
RemoteCallFails ==
    /\ run.pc # "idle"
    /\ AboutToCall(run)
    /\ \E status \in FailureStatuses :
           hist' = Append(hist,
                       [config |-> run.config, outcome |-> "failed",
                        error |-> check_response_status(status).error,
                        remote |-> remote, calls |-> calls,
                        warnings |-> run.warnings, status |-> status])
    /\ run' = Idle
    /\ calls' = <<>>
    /\ UNCHANGED <<fnIn, fnOut, remote, loaded>>

NextFailure ==
    \/ StartSave
    \/ SaveStep
    \/ RemoteCallFails

SpecFailure == Init /\ [][NextFailure]_vars

(***************************************************************************)
(* C16: when a remote call of a save run is answered with a status other   *)
(* than 2xx, the run fails at that call with RemoteRequestError: the call  *)
(* is not repeated, the run issues no further call, and what the earlier   *)
(* calls of the run did on the service stays in place.                     *)
(***************************************************************************)
\* What the calls of the log created is on the service.
CreatedInPlace(r, log) ==
    \A m \in 1 .. Len(log) :
        log[m].op = "CREATE" =>
            CASE log[m].kind = "project" ->
                     \E o \in Range(r.projects) : o.name = log[m].key[1]
              [] log[m].kind = "student_file" ->
                     \E o \in Range(r.student_files) :
                         /\ o.project = log[m].target
                         /\ o.pattern = log[m].key[1]
              [] log[m].kind = "instructor_file" ->
                     \E o \in Range(r.instructor_files) :
                         /\ o.project = log[m].target
                         /\ o.name = log[m].key[1]
                         /\ o.content = log[m].body.content
              [] log[m].kind = "test_suite" ->
                     \E o \in Range(r.suites) :
                         /\ o.project = log[m].target
                         /\ o.name = log[m].key[1]
              [] log[m].kind = "test_case" ->
                     \E o \in Range(r.test_cases) :
                         /\ o.ag_test_suite = log[m].target
                         /\ o.name = log[m].key
              [] log[m].kind = "command" ->
                     \E o \in Range(r.commands) :
                         /\ o.ag_test_case = log[m].target
                         /\ o.name = log[m].key

\* The settings that the run patched are on the service.
PatchedInPlace(r, log) ==
    \A m \in 1 .. Len(log) :
        (log[m].kind = "project" /\ log[m].op = "UPDATE") =>
            \A f \in DOMAIN log[m].body :
                ByPk(r.projects, log[m].target)[f] = log[m].body[f]

C16_FailedCallEndsRun ==
    [][(Len(hist') = Len(hist) + 1
            /\ hist'[Len(hist')].status \in FailureStatuses) =>
           /\ hist'[Len(hist')].outcome = "failed"
           /\ hist'[Len(hist')].error = "RemoteRequestError"
           /\ hist'[Len(hist')].calls = calls
           /\ remote' = remote
           /\ hist'[Len(hist')].remote = remote
           /\ CreatedInPlace(remote', calls)
           /\ PatchedInPlace(remote', calls)
           /\ run'.pc = "idle"
           /\ calls' = <<>>]_vars

C16_Witness ==
    /\ Len(hist) >= 1
    /\ hist[1].status \in FailureStatuses
    /\ hist[1].outcome = "failed"
    /\ hist[1].error = "RemoteRequestError"
    /\ HasCall(hist[1].calls, "student_file", {"UPDATE"})
    /\ HasCall(hist[1].calls, "instructor_file", {"UPDATE"})
    /\ HasCall(hist[1].calls, "test_suite", {"UPDATE"})
    /\ HasCall(hist[1].calls, "test_case", {"CREATE"})
    /\ ~HasCall(hist[1].calls, "test_suite", {"ORDER"})
    /\ CreatedInPlace(hist[1].remote, hist[1].calls)

(***************************************************************************)
(* C17: for each expected student file entry of the configuration, save    *)
(* issues exactly one mutating call: a CREATE under the project when no    *)
(* remote expected student file of the project has the pattern, otherwise  *)
(* a PATCH addressed to the primary key of a remote file with the pattern. *)
(***************************************************************************)
StudentFileCalls(log, pattern) ==
    {m \in 1 .. Len(log) :
        log[m].kind = "student_file" /\ log[m].key = Some(pattern)}

EntriesWithPattern(config, pattern) ==
    {n \in 1 .. Len(config.student_files) :
        StudentFileStr(config.student_files[n]) = pattern}

\* One call for each entry, in a run that ended.
OneCallForEachEntry(saved) ==
    \A n \in 1 .. Len(saved.config.student_files) :
        LET pattern == StudentFileStr(saved.config.student_files[n])
        IN  Cardinality(StudentFileCalls(saved.calls, pattern))
                = Cardinality(EntriesWithPattern(saved.config, pattern))

\* The call is a CREATE or a PATCH as the service stands when it is made.
StudentFileCallFits(r, call) ==
    LET having == {f \in Range(r.student_files) :
                      f.project = run.project_pk /\ <<f.pattern>> = call.key}
    IN  IF having = {}
        THEN call.op = "CREATE" /\ call.target = run.project_pk
        ELSE call.op = "UPDATE" /\ call.target \in {f.pk : f \in having}

\* The part of C17 that the code keeps: the entries are reconciled so when
\* they are patterns with match counts and no pattern is listed twice.
PlainStudentFiles(config) ==
    \A n \in 1 .. Len(config.student_files) :
        /\ StudentFileDiscriminator(config.student_files[n]) = "fnmatch"
        /\ EntriesWithPattern(config, config.student_files[n].pattern) = {n}

StudentFilesStep(only_plain) ==
    /\ (Len(calls') = Len(calls) + 1
            /\ calls'[Len(calls')].kind = "student_file"
            /\ (only_plain => PlainStudentFiles(run.config)))
           => StudentFileCallFits(remote, calls'[Len(calls')])
    /\ (Len(hist') = Len(hist) + 1
            /\ ValidConfig(hist'[Len(hist')].config)
            /\ (only_plain => PlainStudentFiles(hist'[Len(hist')].config)))
           => OneCallForEachEntry(hist'[Len(hist')])

C17_OneCallForEachStudentFile ==
    [][StudentFilesStep(FALSE)]_vars

C17_PlainEntriesReconciled ==
    [][StudentFilesStep(TRUE)]_vars

(***************************************************************************)
(* C18: for each local instructor file of the configuration, save uploads  *)
(* its content with PUT to the content endpoint of the remote file's       *)
(* primary key if and only if a remote instructor file of the same name    *)
(* exists, and otherwise with POST creating it; after the phase the table  *)
(* keyed by file name holds the remote object of every file uploaded in    *)
(* the run.                                                                *)
(***************************************************************************)
RemoteInstructorFilesNamed(r, saver, name) ==
    {f \in Range(r.instructor_files) :
        f.project = saver.project_pk /\ f.name = name}

\* The upload is a PUT or a POST as the service stands when it is made, and
\* carries the content of the local file.
InstructorFileCallFits(r, saver, call) ==
    LET having == RemoteInstructorFilesNamed(r, saver, call.key[1])
    IN  /\ call.op = "UPDATE" <=> having # {}
        /\ call.op = "UPDATE" => call.target \in {f.pk : f \in having}
        /\ call.op # "UPDATE"
               => call.op = "CREATE" /\ call.target = saver.project_pk
        /\ call.body = [content |-> saver.config.dir[call.key[1]]]

\* The table holds the remote object of the file.
TableHolds(r, saver, name) ==
    /\ name \in DOMAIN saver.instructor_files
    /\ saver.instructor_files[name]
           \in RemoteInstructorFilesNamed(r, saver, name)
    /\ saver.instructor_files[name].content = saver.config.dir[name]

\* The local files of the configuration passed so far.
LocalFilesUpTo(saver, last) ==
    {saver.config.instructor_files[n].local_path : n \in 1 .. last}
        \cap DOMAIN saver.config.dir

UploadedNames(log) ==
    {log[m].key[1] : m \in {n \in 1 .. Len(log) :
                               log[n].kind = "instructor_file"}}

InstructorFilesStep ==
    /\ (Len(calls') = Len(calls) + 1
            /\ calls'[Len(calls')].kind = "instructor_file")
           => /\ InstructorFileCallFits(remote, run, calls'[Len(calls')])
              /\ TableHolds(remote', run', calls'[Len(calls')].key[1])
    /\ (run.pc = "instructor_files" /\ run'.pc = "load_sandbox_images")
           => /\ UploadedNames(calls)
                    = LocalFilesUpTo(run, Len(run.config.instructor_files))
              /\ \A name \in UploadedNames(calls) :
                    TableHolds(remote, run', name)

C18_InstructorFilesUploaded ==
    [][InstructorFilesStep]_vars

\* The phase has ended for a run that replaced the content of a file which
\* an earlier run created.
C18_Witness ==
    /\ run.pc = "load_sandbox_images"
    /\ Len(hist) = 1
    /\ HasCall(hist[1].calls, "instructor_file", {"CREATE"})
    /\ HasCall(calls, "instructor_file", {"UPDATE"})
    /\ \E name \in UploadedNames(calls) : TableHolds(remote, run, name)

(***************************************************************************)
(* C19: each successful save creates a suite when no remote suite of that  *)
(* name exists and patches it otherwise, and issues exactly one reorder    *)
(* call, after every suite of the configuration has been created or        *)
(* patched, whose argument is the list of the remote primary keys of the   *)
(* suites of the configuration in the order of the configuration;          *)
(* afterwards the remote order of those suites is that order.              *)
(***************************************************************************)
RemoteSuitesNamed(r, project_pk, name) ==
    {s \in Range(r.suites) : s.project = project_pk /\ s.name = name}

SuiteCallFits(r, saver, call) ==
    LET having == RemoteSuitesNamed(r, saver.project_pk, call.key[1])
    IN  IF having = {}
        THEN call.op = "CREATE" /\ call.target = saver.project_pk
        ELSE call.op = "UPDATE" /\ call.target \in {s.pk : s \in having}

SuiteNames(config) ==
    [n \in 1 .. Len(config.test_suites) |-> config.test_suites[n].name]

\* The suites of the project that the configuration names, as the service
\* lists them.
RemoteOrderOf(saved) ==
    LET project_pk == RemoteProjectOf(saved).pk
        listed == SelectSeq(saved.remote.suites,
                            LAMBDA s : s.project = project_pk
                                /\ s.name \in Range(SuiteNames(saved.config)))
    IN  [n \in 1 .. Len(listed) |-> listed[n].name]

OrderCalls(log) ==
    {m \in 1 .. Len(log) : log[m].op = "ORDER"}

ReorderedOnce(saved) ==
    LET project_pk == RemoteProjectOf(saved).pk
        names == SuiteNames(saved.config)
    IN  /\ OrderCalls(saved.calls) = {Len(saved.calls)}
        /\ \A n \in 1 .. Len(names) :
               \E m \in 1 .. Len(saved.calls) - 1 :
                   /\ saved.calls[m].kind = "test_suite"
                   /\ saved.calls[m].op \in {"CREATE", "UPDATE"}
                   /\ saved.calls[m].key = Some(names[n])
        /\ LET order == saved.calls[Len(saved.calls)].body.order
           IN  /\ Len(order) = Len(names)
               /\ \A n \in 1 .. Len(names) :
                      order[n] \in {s.pk : s \in RemoteSuitesNamed(
                                        saved.remote, project_pk, names[n])}
        /\ RemoteOrderOf(saved) = names

SuitesStep ==
    /\ (Len(calls') = Len(calls) + 1
            /\ calls'[Len(calls')].kind = "test_suite"
            /\ calls'[Len(calls')].op # "ORDER")
           => SuiteCallFits(remote, run, calls'[Len(calls')])
    /\ (Len(hist') = Len(hist) + 1 /\ hist'[Len(hist')].outcome = "done")
           => ReorderedOnce(hist'[Len(hist')])

C19_SuitesReconciledAndOrdered ==
    [][SuitesStep]_vars

\* A successful save that patched both suites of the project and put them
\* in the order of the configuration, the reverse of the order before.
C19_Witness ==
    /\ Len(hist) >= 1
    /\ hist[1].outcome = "done"
    /\ Len(hist[1].config.test_suites) = 2
    /\ HasCall(hist[1].calls, "test_suite", {"UPDATE"})
    /\ RemoteOrderOf(hist[1]) = SuiteNames(hist[1].config)
    /\ RemoteOrderOf([hist[1] EXCEPT !.remote = RemotePopulated])
           # SuiteNames(hist[1].config)

(***************************************************************************)
(* C20: for each test case obtained by do_repeat expansion of a single     *)
(* command test case, save creates the test case if the suite has no       *)
(* remote test case of that name and patches it otherwise, then creates    *)
(* one command named after the test case if the remote test case has no    *)
(* command of that name and patches that command otherwise; after a        *)
(* successful save each such test case has exactly one command carrying    *)
(* its name.                                                               *)
(***************************************************************************)
RemoteTestsNamed(r, suite_pk, name) ==
    {t \in Range(r.test_cases) : t.ag_test_suite = suite_pk /\ t.name = name}

RemoteCommandsNamed(r, test_pk, name) ==
    {c \in Range(r.commands) : c.ag_test_case = test_pk /\ c.name = name}

TestCaseCallFits(r, saver, call) ==
    LET suite_pk ==
            saver.test_suites[saver.config.test_suites[saver.i].name].pk
        having == RemoteTestsNamed(r, suite_pk, call.key)
    IN  IF having = {}
        THEN call.op = "CREATE" /\ call.target = suite_pk
        ELSE call.op = "UPDATE" /\ call.target \in {t.pk : t \in having}

CommandCallFits(r, saver, log, call) ==
    LET test_pk == saver.test_data[1].pk
        having == RemoteCommandsNamed(r, test_pk, call.key)
    IN  /\ log[Len(log)].kind = "test_case"
        /\ log[Len(log)].key = call.key
        /\ IF having = {}
           THEN call.op = "CREATE" /\ call.target = test_pk
           ELSE call.op = "UPDATE" /\ call.target \in {c.pk : c \in having}

\* The names of the single-command test cases of a suite after expansion,
\* in the order save passes them.
RECURSIVE ExpandedNames(_, _)
ExpandedNames(test_cases, n) ==
    IF n > Len(test_cases) THEN <<>>
    ELSE LET repeated == DoRepeat(test_cases[n])
             names == IF test_cases[n].type = "single_cmd" /\ repeated.ok
                      THEN [k \in 1 .. Len(repeated.tests) |->
                               repeated.tests[k].name]
                      ELSE <<>>
         IN  names \o ExpandedNames(test_cases, n + 1)

OneCommandForEachTest(saved) ==
    LET project_pk == RemoteProjectOf(saved).pk
    IN  \A suite \in Range(saved.config.test_suites) :
        \A s \in RemoteSuitesNamed(saved.remote, project_pk, suite.name) :
        \A name \in Range(ExpandedNames(suite.test_cases, 1)) :
            LET tests == RemoteTestsNamed(saved.remote, s.pk, name)
            IN  /\ tests # {}
                /\ \A t \in tests :
                       Cardinality(RemoteCommandsNamed(saved.remote, t.pk,
                                                       name)) = 1

DistinctTestNames(config) ==
    \A suite \in Range(config.test_suites) :
        LET names == ExpandedNames(suite.test_cases, 1)
        IN  Cardinality(Range(names)) = Len(names)

TestCasesStep(only_distinct) ==
    /\ (Len(calls') = Len(calls) + 1
            /\ calls'[Len(calls')].kind = "test_case"
            /\ (only_distinct => DistinctTestNames(run.config)))
           => TestCaseCallFits(remote, run, calls'[Len(calls')])
    /\ (Len(calls') = Len(calls) + 1
            /\ calls'[Len(calls')].kind = "command"
            /\ (only_distinct => DistinctTestNames(run.config)))
           => CommandCallFits(remote, run, calls, calls'[Len(calls')])
    /\ (Len(hist') = Len(hist) + 1 /\ hist'[Len(hist')].outcome = "done"
            /\ (only_distinct => DistinctTestNames(hist'[Len(hist')].config)))
           => OneCommandForEachTest(hist'[Len(hist')])

C20_TestCasesAndCommandsReconciled ==
    [][TestCasesStep(FALSE)]_vars

\* The part of C20 that the code keeps: configurations whose test cases
\* have distinct names within each suite after expansion.
C20_DistinctNamesReconciled ==
    [][TestCasesStep(TRUE)]_vars

(***************************************************************************)
(* Feedback presets: the preset tables of AGConfig and the lookups of      *)
(* save_project.                                                           *)
(***************************************************************************)
\* AGConfig.feedback_presets and feedback_presets_test_suite_setup: the
\* default factory gives the built-in table when the configuration file
\* leaves the field out; a supplied table is the value of the field.
FeedbackPresetsField(supplied, builtin) ==
    IF supplied = None THEN builtin ELSE supplied[1]

\* _get_fdbk_conf(val) with self.config.feedback_presets = presets
get_fdbk_conf(presets, val) ==
    IF val = None THEN [ok |-> TRUE, val |-> None]
    ELSE IF DOMAIN val = {"str"}
    THEN IF val.str \notin DOMAIN presets
         THEN Raise("KeyError")
         ELSE [ok |-> TRUE, val |-> presets[val.str]]
    ELSE [ok |-> TRUE, val |-> val.object]

\* _get_suite_setup_fdbk_conf(val) with
\* self.config.feedback_presets_test_suite_setup = presets
get_suite_setup_fdbk_conf(presets, val) ==
    IF DOMAIN val = {"str"}
    THEN IF val.str \notin DOMAIN presets
         THEN Raise("KeyError")
         ELSE [ok |-> TRUE, val |-> presets[val.str]]
    ELSE [ok |-> TRUE, val |-> val.object]

\* Tables a configuration file may supply: some of these names, each with
\* one of two configs of the user.
UserPresetNames == {"public", "private", "mine"}

UserFdbkConfigs == {[preset |-> "user1"], [preset |-> "user2"]}

SuppliedPresets ==
    {None} \cup {Some(table) : table \in
                    UNION {[names -> UserFdbkConfigs] :
                              names \in SUBSET UserPresetNames}}

PresetValues ==
    {None}
    \cup {PyStr(name) : name \in {"public", "private", "pass/fail",
                                   "mine", "nope"}}
    \cup {PyObj(conf) : conf \in UserFdbkConfigs}

BuiltinTable(level) ==
    IF level = "cmd" THEN BuiltinCmdFdbkPresets
    ELSE BuiltinTestSuiteFdbkPresets

InitPresets ==
    /\ \E level \in {"cmd", "suite"}, supplied \in SuppliedPresets,
          val \in PresetValues :
           /\ level = "suite" => val # None
           /\ fnIn = [kind |-> "preset", level |-> level,
                      supplied |-> supplied, val |-> val]
    /\ fnOut = NoCall
    /\ MainIdle

CallGetFdbkConf ==
    /\ fnOut = NoCall
    /\ fnIn.kind = "preset"
    /\ fnIn.level = "cmd"
    /\ fnOut' = [fn |-> "_get_fdbk_conf",
                 val |-> get_fdbk_conf(
                             FeedbackPresetsField(fnIn.supplied,
                                                  BuiltinCmdFdbkPresets),
                             fnIn.val)]
    /\ UNCHANGED <<fnIn, remote, run, calls, hist, loaded>>

CallGetSuiteSetupFdbkConf ==
    /\ fnOut = NoCall
    /\ fnIn.kind = "preset"
    /\ fnIn.level = "suite"
    /\ fnOut' = [fn |-> "_get_suite_setup_fdbk_conf",
                 val |-> get_suite_setup_fdbk_conf(
                             FeedbackPresetsField(
                                 fnIn.supplied, BuiltinTestSuiteFdbkPresets),
                             fnIn.val)]
    /\ UNCHANGED <<fnIn, remote, run, calls, hist, loaded>>

NextPresets == CallGetFdbkConf \/ CallGetSuiteSetupFdbkConf

SpecPresets == InitPresets /\ [][NextPresets]_vars

PresetLooked ==
    /\ fnOut.fn \in {"_get_fdbk_conf", "_get_suite_setup_fdbk_conf"}
    /\ fnIn.val # None
    /\ DOMAIN fnIn.val = {"str"}

UserSupplied(name) ==
    fnIn.supplied # None /\ name \in DOMAIN fnIn.supplied[1]

(***************************************************************************)
(* C21: resolving a feedback preset named by a bare string that is in      *)
(* neither the built-in table nor the presets of the user, at the command  *)
(* level or the suite setup level, fails with the configuration error; the *)
(* lookup never returns a preset for such a name and never fails with      *)
(* another kind of error.                                                  *)
(***************************************************************************)
NowhereDefined ==
    /\ PresetLooked
    /\ fnIn.val.str \notin DOMAIN BuiltinTable(fnIn.level)
    /\ ~UserSupplied(fnIn.val.str)

C21_UnknownPresetIsConfigError ==
    NowhereDefined => fnOut.val = Raise("AGConfigError")

\* The part of C21 that the code keeps: no preset is returned for the name.
C21_UnknownPresetNotResolved ==
    NowhereDefined => ~fnOut.val.ok

(***************************************************************************)
(* C25: when the configuration supplies its own feedback_presets or        *)
(* feedback_presets_test_suite_setup entries, every built-in preset name   *)
(* that the user did not override still resolves to its built-in config,   *)
(* and an overridden name resolves to the config of the user.              *)
(***************************************************************************)
SuppliedAndLooked ==
    /\ PresetLooked
    /\ fnIn.supplied # None

C25_BuiltinsMergeWithUserPresets ==
    SuppliedAndLooked =>
        LET name == fnIn.val.str
        IN  /\ UserSupplied(name) =>
                   fnOut.val = [ok |-> TRUE, val |-> fnIn.supplied[1][name]]
            /\ (name \in DOMAIN BuiltinTable(fnIn.level)
                    /\ ~UserSupplied(name)) =>
                   fnOut.val = [ok |-> TRUE,
                                val |-> BuiltinTable(fnIn.level)[name]]

\* The part of C25 that the code keeps: a name of the user's table resolves
\* to the user's config, and without a table of the user the built-in
\* names resolve to the built-in configs.
C25_UserTableOrBuiltinTable ==
    PresetLooked =>
        LET name == fnIn.val.str
        IN  /\ UserSupplied(name) =>
                   fnOut.val = [ok |-> TRUE, val |-> fnIn.supplied[1][name]]
            /\ (fnIn.supplied = None
                    /\ name \in DOMAIN BuiltinTable(fnIn.level)) =>
                   fnOut.val = [ok |-> TRUE,
                                val |-> BuiltinTable(fnIn.level)[name]]

(***************************************************************************)
(* References to instructor files: save runs of configurations whose       *)
(* suites and test cases name instructor files.                            *)
(***************************************************************************)
\* A suite that needs an instructor file that does not exist.
ConfigSuiteNeedsUnknownFile ==
    ProjectConfig(
        DefaultSettings, <<>>, <<>>, NoFiles,
        <<TestSuiteConfig("S1", <<>>, <<"zz">>, <<PlainTest(<<"T">>)>>)>>)

ReferenceConfigs ==
    {ConfigFull, ConfigUnknownFile, ConfigSuiteNeedsUnknownFile}

StartSaveReferences == \E config \in ReferenceConfigs : StartSaveOf(config)

NextReferences == StartSaveReferences \/ SaveStep

SpecReferences == Init /\ [][NextReferences]_vars

(***************************************************************************)
(* C22: a reference by name to an instructor file that is neither uploaded *)
(* in the current run nor present remotely makes save fail with the        *)
(* configuration error, both when the reference is the instructor file of  *)
(* a test case's stdin, stdout or stderr and when it is an entry of a      *)
(* suite's instructor_files_needed.                                        *)
(***************************************************************************)
SuiteFileReferences(config) ==
    UNION {Range(suite.instructor_files_needed) :
              suite \in Range(config.test_suites)}

TestFileReferences(config) ==
    UNION {{test.stdin_instructor_file[1] :
               test \in {t \in Range(suite.test_cases) :
                            /\ t.type = "single_cmd"
                            /\ t.stdin_instructor_file # None}} :
              suite \in Range(config.test_suites)}

\* The instructor files the run could refer to: the local files of the
\* configuration and the files the project holds remotely.
ResolvableFiles(saved) ==
    ({f.local_path : f \in Range(saved.config.instructor_files)}
         \cap DOMAIN saved.config.dir)
    \cup {f.name : f \in {g \in Range(saved.remote.instructor_files) :
                             g.project = RemoteProjectOf(saved).pk}}

FailedWithConfigError(saved) ==
    saved.outcome = "failed" /\ saved.error = "AGConfigError"

C22_UnresolvedFileIsConfigError ==
    \A n \in 1 .. Len(hist) :
        ((SuiteFileReferences(hist[n].config)
              \cup TestFileReferences(hist[n].config))
             \ ResolvableFiles(hist[n])) # {}
        => FailedWithConfigError(hist[n])

\* The part of C22 that the code keeps: the reference of a test case.
C22_UnresolvedTestFileIsConfigError ==
    \A n \in 1 .. Len(hist) :
        (/\ (TestFileReferences(hist[n].config)
                \ ResolvableFiles(hist[n])) # {}
         /\ SuiteFileReferences(hist[n].config) \subseteq
                ResolvableFiles(hist[n]))
        => FailedWithConfigError(hist[n])

(***************************************************************************)
(* C23: the project lookup returns the project of the course whose name    *)
(* equals the requested name exactly; when no project matches, it fails    *)
(* with the not-found error if the lookup is required (load) and returns   *)
(* a null project otherwise (save), and in no case returns a project with  *)
(* a different name.                                                       *)
(***************************************************************************)
ProjectsNamed(r, name) ==
    {p \in Range(r.projects) : p.name = name}

LookupStep(miss_error) ==
    /\ (loaded = None /\ loaded' # None) =>
           IF ProjectsNamed(remote, ProjectName) = {}
           THEN ~loaded'.ok /\ loaded'.error = miss_error
           ELSE /\ loaded'.project_data # None
                /\ loaded'.project_data[1] \in ProjectsNamed(remote, ProjectName)
    /\ (run = Idle /\ run' # Idle) =>
           IF ProjectsNamed(remote, run'.config.name) = {}
           THEN run'.project_pk = 0 /\ run'.pc = "create_project"
           ELSE run'.project_pk
                    \in {p.pk : p \in ProjectsNamed(remote, run'.config.name)}

C23_LookupMissIsNotFoundError ==
    [][LookupStep("NotFoundError")]_vars

\* The part of C23 that the code keeps: the project found has exactly the
\* name asked for, save gets no project on a miss, and load fails on a
\* miss, with the error of the configuration.
C23_LookupByExactName ==
    [][LookupStep("AGConfigError")]_vars

(***************************************************************************)
(* C24: when a suite's student_files_needed names an expected student file *)
(* declared in the same configuration, the create or patch body of the     *)
(* suite carries the remote object of that file, also in a run where the   *)
(* file did not exist remotely before and is created earlier in the run.   *)
(***************************************************************************)
DeclaredPatterns(config) ==
    {StudentFileStr(config.student_files[n]) :
        n \in 1 .. Len(config.student_files)}

\* The run is about to send the suite, and nothing but the student files
\* it needs could keep the body from being built.
AboutToSendSuite(saver) ==
    /\ saver.pc = "test_suites"
    /\ saver.i <= Len(saver.config.test_suites)
    /\ LET suite == saver.config.test_suites[saver.i]
       IN  /\ Range(suite.student_files_needed)
                  \subseteq DeclaredPatterns(saver.config)
           /\ suite.student_files_needed # <<>>
           /\ Range(suite.instructor_files_needed)
                  \subseteq DOMAIN saver.instructor_files
           /\ suite.sandbox_docker_image \in DOMAIN saver.sandbox_images
           /\ suite.normal_fdbk_config
                  \in DOMAIN saver.config.feedback_presets_test_suite_setup

BodyCarriesStudentFiles(r, saver, log) ==
    LET suite == saver.config.test_suites[saver.i]
        sent == log[Len(log)]
    IN  /\ sent.kind = "test_suite"
        /\ sent.key = Some(suite.name)
        /\ Len(sent.body.student_files_needed)
               = Len(suite.student_files_needed)
        /\ \A n \in 1 .. Len(suite.student_files_needed) :
               \E f \in Range(r.student_files) :
                   /\ f.project = saver.project_pk
                   /\ f.pattern = suite.student_files_needed[n]
                   /\ f.pk = sent.body.student_files_needed[n].pk

SuiteBodyStep(only_listed) ==
    (/\ AboutToSendSuite(run)
     /\ only_listed =>
            Range(run.config.test_suites[run.i].student_files_needed)
                \subseteq DOMAIN run.student_files)
    => /\ Len(calls') = Len(calls) + 1
       /\ BodyCarriesStudentFiles(remote, run, calls')

C24_SuiteBodyCarriesDeclaredFiles ==
    [][SuiteBodyStep(FALSE)]_vars

\* The part of C24 that the code keeps: the files that the project held
\* when the run listed them.
C24_SuiteBodyCarriesListedFiles ==
    [][SuiteBodyStep(TRUE)]_vars

(***************************************************************************)
(* The discriminator of the expected student files.                        *)
(***************************************************************************)
StudentFileKeys ==
    {"filename", "pattern", "min_num_matches", "max_num_matches"}

\* The raw mappings with any of the keys.
RawStudentFiles ==
    {[key \in keys |-> full[key]] :
        keys \in SUBSET StudentFileKeys,
        full \in [filename : {"a", "b"}, pattern : {"a", "b*"},
                  min_num_matches : {0, 1}, max_num_matches : {1, 2}]}

\* The objects of the two classes.
TypedStudentFiles ==
    {ExactMatchExpectedStudentFile(filename) : filename \in {"a", "b"}}
    \cup {FnmatchExpectedStudentFile(pattern, min, max) :
             pattern \in {"a", "b*"}, min \in {0, 1}, max \in {1, 2}}

InitDiscriminator ==
    /\ \/ \E m \in RawStudentFiles :
              fnIn = [kind |-> "student_file", form |-> "dict", value |-> m]
       \/ \E o \in TypedStudentFiles :
              fnIn = [kind |-> "student_file", form |-> "object", value |-> o]
       \/ \E text \in {"a", "b*"} :
              fnIn = [kind |-> "student_file", form |-> "str",
                      value |-> PyStr(text)]
    /\ fnOut = NoCall
    /\ MainIdle

CallStudentFileDiscriminator ==
    /\ fnOut = NoCall
    /\ fnIn.kind = "student_file"
    /\ fnOut' = [fn |-> "_get_expected_student_file_discriminator",
                 val |-> StudentFileDiscriminator(fnIn.value)]
    /\ UNCHANGED <<fnIn, remote, run, calls, hist, loaded>>

NextDiscriminator == CallStudentFileDiscriminator

SpecDiscriminator == InitDiscriminator /\ [][NextDiscriminator]_vars

(***************************************************************************)
(* C26: the discriminator of the expected student files returns            *)
(* exact_match when only the filename marker is present, fnmatch when only *)
(* the pattern marker is present, and null when neither marker or both     *)
(* markers are present, for raw mappings and for typed objects alike.      *)
(***************************************************************************)
HasMarker(marker) == marker \in DOMAIN fnIn.value

Discriminated == fnOut.fn = "_get_expected_student_file_discriminator"

C26_DiscriminatorByMarkers ==
    Discriminated =>
        fnOut.val = IF HasMarker("filename") /\ ~HasMarker("pattern")
                    THEN "exact_match"
                    ELSE IF HasMarker("pattern") /\ ~HasMarker("filename")
                    THEN "fnmatch"
                    ELSE ""

\* The part of C26 that the code keeps: the inputs with at most one marker.
C26_DiscriminatorOfOneMarker ==
    (Discriminated /\ ~(HasMarker("filename") /\ HasMarker("pattern"))) =>
        fnOut.val = IF HasMarker("filename") THEN "exact_match"
                    ELSE IF HasMarker("pattern") THEN "fnmatch"
                    ELSE ""

(***************************************************************************)
(* C27: for a single-command test case with repeat entries, do_repeat also *)
(* replaces every placeholder occurrence in the stdin, expected-stdout and *)
(* expected-stderr instructor-file references of each expanded instance    *)
(* with the string form of the mapped value.                               *)
(***************************************************************************)
C27_Applies ==
    /\ fnOut.fn = "do_repeat"
    /\ fnIn.template \in InstructorFileTemplates
    /\ fnIn.template.repeat # <<>>
    /\ fnOut.val.ok

C27_RepeatExpandsFileReferences ==
    C27_Applies =>
        \A i \in 1 .. Len(fnIn.template.repeat) :
            fnOut.val.tests[i].stdin_instructor_file
                = Some(Substituted(fnIn.template.stdin_instructor_file[1],
                                   fnIn.template.repeat[i], 1))

\* The part of C27 that the code keeps: a reference in which no placeholder
\* of the map occurs is that of the template.
C27_PlainFileReferenceKept ==
    C27_Applies =>
        \A i \in 1 .. Len(fnIn.template.repeat) :
            Substituted(fnIn.template.stdin_instructor_file[1],
                        fnIn.template.repeat[i], 1)
                    = fnIn.template.stdin_instructor_file[1]
                => fnOut.val.tests[i].stdin_instructor_file
                       = fnIn.template.stdin_instructor_file

(***************************************************************************)
(* Serializing durations.  The timedelta of a whole number of minutes has  *)
(* days = minutes div 1440 and seconds = 60 * (minutes mod 1440).          *)
(***************************************************************************)
MaxMinutes == 3000

TimedeltaDays(minutes) == minutes \div 1440

TimedeltaSeconds(minutes) == 60 * (minutes % 1440)

\* f"{n}{unit}" when n is not zero
Formatted(n, unit) == IF n # 0 THEN StrOfNat(n) \o unit ELSE <<>>

\* time_processing.serialize_duration
serialize_duration(value) ==
    LET days == TimedeltaDays(value)
        seconds == TimedeltaSeconds(value)
        hours == seconds \div 3600
        minutes == (seconds % 3600) \div 60
    IN  Formatted(days, <<"d">>) \o Formatted(hours, <<"h">>)
            \o Formatted(minutes, <<"m">>)

\* ProjectSettings.serialize_grace_period: the minutes are the seconds
\* modulo 60, written without a unit.
serialize_grace_period(value) ==
    LET days == TimedeltaDays(value)
        hours == TimedeltaSeconds(value) \div 3600
        minutes == TimedeltaSeconds(value) % 60
    IN  Formatted(days, <<"d">>) \o Formatted(hours, <<"h">>)
            \o Formatted(minutes, <<>>)

InitSerialize ==
    /\ \E minutes \in 0 .. MaxMinutes :
           fnIn = [kind |-> "duration", minutes |-> minutes]
    /\ fnOut = NoCall
    /\ MainIdle

CallSerializeDuration ==
    /\ fnOut = NoCall
    /\ fnIn.kind = "duration"
    /\ LET text == serialize_duration(fnIn.minutes)
       IN  fnOut' = [fn |-> "serialize_duration", val |-> text,
                     parsed |-> validate_duration(text)]
    /\ UNCHANGED <<fnIn, remote, run, calls, hist, loaded>>

CallSerializeGracePeriod ==
    /\ fnOut = NoCall
    /\ fnIn.kind = "duration"
    /\ LET text == serialize_grace_period(fnIn.minutes)
       IN  fnOut' = [fn |-> "serialize_grace_period", val |-> text,
                     parsed |-> validate_grace_period(text)]
    /\ UNCHANGED <<fnIn, remote, run, calls, hist, loaded>>

NextSerialize == CallSerializeDuration \/ CallSerializeGracePeriod

SpecSerialize == InitSerialize /\ [][NextSerialize]_vars

(***************************************************************************)
(* C28: for every non-negative duration d that is a whole number of        *)
(* minutes, serializing d gives the canonical string with zero components  *)
(* omitted (the empty string for a zero duration) and parsing that string  *)
(* gives d back; this holds for both serializers, serialize_duration and   *)
(* the serializer of the grace_period field.                               *)
(***************************************************************************)
CanonicalDuration(d) ==
    LET days == d \div 1440
        hours == (d - 1440 * days) \div 60
        minutes == d - 1440 * days - 60 * hours
    IN  (IF days = 0 THEN <<>> ELSE StrOfNat(days) \o <<"d">>)
        \o (IF hours = 0 THEN <<>> ELSE StrOfNat(hours) \o <<"h">>)
        \o (IF minutes = 0 THEN <<>> ELSE StrOfNat(minutes) \o <<"m">>)

RoundTrips ==
    /\ fnOut.val = CanonicalDuration(fnIn.minutes)
    /\ fnOut.parsed = [ok |-> TRUE, minutes |-> fnIn.minutes]

C28_DurationRoundTrip ==
    fnOut.fn \in {"serialize_duration", "serialize_grace_period"}
        => RoundTrips

\* The part of C28 that the code keeps: serialize_duration and
\* validate_duration.
C28_SerializeDurationRoundTrip ==
    fnOut.fn = "serialize_duration" => RoundTrips

(***************************************************************************)
(* C29: within one save run at most one CREATE is issued per key: when the *)
(* configuration, after repeat expansion, holds two entries with the same  *)
(* expected student file pattern, the same suite name, or the same test    *)
(* case name within a suite, the second entry is reconciled as an update   *)
(* of the object the first one created, so that after the run no two       *)
(* remote objects under the same parent share a key.                       *)
(***************************************************************************)
KeyedKinds == {"student_file", "test_suite", "test_case"}

\* No two CREATE calls of the log have the same kind, parent and key.
CreatedOnce(log) ==
    \A m, n \in 1 .. Len(log) :
        (/\ m < n
         /\ log[m].op = "CREATE" /\ log[n].op = "CREATE"
         /\ log[m].kind \in KeyedKinds
         /\ log[m].kind = log[n].kind
         /\ log[m].target = log[n].target)
        => log[m].key # log[n].key

\* No two objects of the list have the same parent and key.
KeysUnique(list, parent, key) ==
    \A m, n \in 1 .. Len(list) :
        (m < n /\ list[m][parent] = list[n][parent])
            => list[m][key] # list[n][key]

NoSharedKeys(r) ==
    /\ KeysUnique(r.student_files, "project", "pattern")
    /\ KeysUnique(r.suites, "project", "name")
    /\ KeysUnique(r.test_cases, "ag_test_suite", "name")

C29_OneCreatePerKey ==
    /\ CreatedOnce(calls)
    /\ NoSharedKeys(remote)

\* The part of C29 that the code keeps: a run of a configuration that
\* lists no pattern and no test case name twice creates no key twice.
C29_DistinctEntriesCreatedOnce ==
    (/\ run # Idle
     /\ PlainStudentFiles(run.config)
     /\ DistinctTestNames(run.config))
    => CreatedOnce(calls)

(***************************************************************************)
(* C30: after a successful save, every expected student file that the      *)
(* configuration declares as exact-match has remote min_num_matches =      *)
(* max_num_matches = 1, also when a remote file with the same pattern      *)
(* existed before with other bounds, so that a following load returns it   *)
(* as an exact-match entry.  The save of a configuration that holds        *)
(* nothing but exact-match files is taken to succeed.                      *)
(***************************************************************************)
ExactMatchNames(config) ==
    {config.student_files[n].filename :
        n \in {m \in 1 .. Len(config.student_files) :
                  StudentFileDiscriminator(config.student_files[m])
                      = "exact_match"}}

OnlyStudentFiles(config) ==
    /\ ValidConfig(config)
    /\ config.instructor_files = <<>>
    /\ config.test_suites = <<>>

RemoteFilesOfRun(saved) ==
    {f \in Range(saved.remote.student_files) :
        get_project_from_course(saved.remote, saved.config.name) # None
        /\ f.project = RemoteProjectOf(saved).pk}

SavedAsOneMatch(saved) ==
    \A name \in ExactMatchNames(saved.config) :
        /\ \E f \in RemoteFilesOfRun(saved) : f.pattern = name
        /\ \A f \in RemoteFilesOfRun(saved) :
               f.pattern = name =>
                   f.min_num_matches = 1 /\ f.max_num_matches = 1

\* The save half: the run succeeds and leaves the files with bounds 1, 1.
ExactMatchSaved ==
    \A n \in 1 .. Len(hist) :
        (OnlyStudentFiles(hist[n].config)
             /\ ExactMatchNames(hist[n].config) # {})
        => hist[n].outcome = "done" /\ SavedAsOneMatch(hist[n])

\* The load half: after a save that succeeded, a file of the project with
\* bounds 1, 1 is loaded as an exact-match entry.
ExactMatchLoaded ==
    (/\ loaded # None
     /\ loaded.at >= 1
     /\ hist[loaded.at].outcome = "done")
    => \A f \in RemoteFilesOfRun(hist[loaded.at]) :
           (f.min_num_matches = 1 /\ f.max_num_matches = 1)
           => /\ loaded.ok
              /\ ExactMatchExpectedStudentFile(f.pattern)
                     \in Range(loaded.config.student_files)

C30_ExactMatchHasOneMatch ==
    ExactMatchSaved /\ ExactMatchLoaded

====
